---- MODULE Spec2Model ----
(***************************************************************************)
(* VideoCallApp: the signaling relay (src/server/index.js) and the         *)
(* client-side peer negotiation engine (usePeerConnection and the socket   *)
(* event handlers of src/client/src/components/VideoCall.js).              *)
(*                                                                         *)
(* Spec        the relay: socket.io connections sending join-room,         *)
(*             leave-room, offer, answer, ice-candidate and disconnecting, *)
(*             each handler run to completion.                             *)
(* SpecEngine  one client's negotiation engine, driven by the signaling    *)
(*             events the relay can deliver to it and by the completion of *)
(*             its asynchronous steps and timers.                          *)
(***************************************************************************)
EXTENDS Integers, Sequences, FiniteSets, Bags, TLC

\* ------------------------------------------------------------------ bounds
NumSockets == 3
NumRooms == 2
MaxHandled == 6
NumPeers == 2
MaxEvents == 4
MaxConns == 2
MaxFailed == 2
NumScreens == 3
MaxTracks == 2

\* ------------------------------------------------------------ value spaces
SocketNames == <<"s1", "s2", "s3", "s4", "s5">>
RoomNames == <<"r1", "r2", "r3", "r4">>
PeerNames == <<"p1", "p2", "p3", "p4">>

\* socket.id of each connection the relay may see
Sockets == {SocketNames[i] : i \in 1..NumSockets}

\* JS null / undefined
Null == "null"

\* connectionMetrics.get(id) of an id without an entry
NoMetrics == -1

\* the room ids a client may put in join-room: the empty string and real ids
RoomIds == {""} \cup {RoomNames[i] : i \in 1..NumRooms}

UserNames == {"ann"}

\* JS truthiness of a roomId value (`user.roomId &&`, `if (user && user.roomId)`)
Truthy(v) == v # Null /\ v # ""

\* A negotiation payload as the relay sees it: an object with a `candidate`
\* string, given by the set of substrings of interest it contains.
Payload(tokens) == [candidate |-> tokens]

Payloads == {Payload({"host", "udp"}), Payload({"relay", "169.254."})}

SignalKinds == {"offer", "answer", "ice-candidate"}

\* ------------------------------------------------------------- relay state
VARIABLES
    sockState,   \* per socket id: "fresh" (never connected), "open", "closed"
    users,       \* keys of the `users` Map
    userObj,     \* the user object created for each connection: name, roomId
    rooms,       \* the `rooms` Map: room id -> keys of room.users in insertion order
    sockRooms,   \* socket.io adapter rooms: room id -> sockets that socket.join()ed
    handled,     \* number of handler runs so far
    last,        \* the message the last handler run was given
    sent,        \* the events the last handler run emitted
    connectionMetrics  \* the `connectionMetrics` Map: pendingOffers of each socket
                       \* id, NoMetrics for an id without an entry

relayVars == <<sockState, users, userObj, rooms, sockRooms, handled, last, sent,
               connectionMetrics>>

\* ------------------------------------------------------------ engine state
VARIABLES
    conns,               \* the RTCPeerConnection objects created so far, by number
    peerConnections,     \* peerConnectionsRef.current: peer id -> connection (0: none)
    iceCandidatesQueue,  \* iceCandidatesQueueRef.current: peer id -> queued candidates
    connectionTimeouts,  \* connectionTimeoutsRef.current: the handles under peerId and peerId_ice
    timers,              \* the pending setTimeout timers armed for connections
    tasks,               \* the suspended asynchronous continuations
    events,              \* number of signaling events and connectivity reports so far
    emitted,             \* the bag of events the client has emitted to the relay
    candidates,          \* every candidate received: its id, its peer, whether it was
                         \* queued, and the peer's session on arrival
    isConnected,         \* useSocket: the transport to the relay is up
    remoteStreamsRef,    \* remoteStreamsRef.current: peer id -> the connection whose
                         \* remote stream is cached (0: none)
    connectionError,     \* the last error given to setConnectionError
    isMounted,           \* isMountedRef.current of the call view
    connectionStatus,    \* the connectionStatus state: peer id -> the last ICE
                         \* connection state reported ("none": no key)
    leftPeers,           \* the peers whose user-left has been handled with no
                         \* user-joined or offer of theirs handled since
    joinedRoomReplies    \* the joined-room replies handled so far: the event and
                         \* the ids of the users it lists

engineVars == <<conns, peerConnections, iceCandidatesQueue, connectionTimeouts, timers,
                tasks, events, emitted, candidates, isConnected, remoteStreamsRef,
                connectionError, isMounted, connectionStatus, leftPeers,
                joinedRoomReplies>>

\* ------------------------------------------------------------- media state
VARIABLES
    senders,             \* pc.getSenders() of the connection stored under peerId
    updates,             \* the calls of updateStream(peerId, newStream) so far
    chain,               \* the replaceTrack operations pending on the connection
    localStream          \* useMedia: the number of the local stream object (0: null)

mediaVars == <<senders, updates, chain, localStream>>

vars == <<relayVars, engineVars, mediaVars>>

\* an emitted event: type, receiving socket, and the fields of its payload object
Event(type, to, from, fromName, room, payload, list, count) ==
    [type |-> type, to |-> to, from |-> from, fromName |-> fromName, room |-> room,
     payload |-> payload, list |-> list, count |-> count]

NoPayload == Payload({})

Input(type, socket, roomId, userName, target, payload) ==
    [type |-> type, socket |-> socket, roomId |-> roomId, userName |-> userName,
     target |-> target, payload |-> payload]

\* io.sockets.sockets: the connected sockets
Connected == {s \in Sockets : sockState[s] = "open"}

\* sequence helpers for the insertion-ordered Map room.users
SeqSet(q) == {q[i] : i \in 1..Len(q)}

SeqRemove(q, x) == SelectSeq(q, LAMBDA y : y # x)

\* Map.set(key, ...): a key already present keeps its place
MapSet(q, x) == IF x \in SeqSet(q) THEN q ELSE Append(q, x)

\* socket.to(room).emit: every socket of the adapter room but the sender
ToRoom(sr, room, s) == sr[room] \ {s}

\* ------------------------------------------------- relay: pure functions

\* filterICECandidate(candidate): defined by the relay, called by no handler
filterICECandidate(c) ==
    /\ c.candidate # {}
    /\ \E type \in {"host", "srflx", "prflx", "relay"} : type \in c.candidate
    /\ ~ \E pattern \in {"169.254.", "0.0.0.0", "::", "tcp type host"} : pattern \in c.candidate

\* handleUserLeave's outer guards: the user has a record, a truthy roomId and
\* the room exists
LeavesARoom(s, us, uo, rm) ==
    s \in us /\ Truthy(uo[s].roomId) /\ uo[s].roomId \in DOMAIN rm

\* handleUserLeave without the `if (room.users.size === 0) rooms.delete(roomId)`
handleUserLeaveRoomsKeepEmpty(s, us, uo, rm) ==
    IF LeavesARoom(s, us, uo, rm)
    THEN [rm EXCEPT ![uo[s].roomId] = SeqRemove(@, s)]
    ELSE rm

\* handleUserLeave, the `rooms` Map afterwards: room.users.delete(socket.id),
\* then rooms.delete(roomId) when the room is left empty
handleUserLeaveRooms(s, us, uo, rm) ==
    IF LeavesARoom(s, us, uo, rm)
    THEN LET r == uo[s].roomId
             m == SeqRemove(rm[r], s)
         IN  IF Len(m) = 0
             THEN [x \in DOMAIN rm \ {r} |-> rm[x]]
             ELSE [rm EXCEPT ![r] = m]
    ELSE rm

\* a handleUserLeave without users.delete(socket.id)
handleUserLeaveUsersKept(s, us) == us

\* handleUserLeave, the `users` Map afterwards: users.delete(socket.id)
handleUserLeaveUsers(s, us) == us \ {s}

\* handleUserLeave, the events emitted: user-left to the adapter room, then
\* room-deleted or room-updated to every connected socket
handleUserLeaveSent(s, us, uo, rm, sr, conn) ==
    IF LeavesARoom(s, us, uo, rm)
    THEN LET r == uo[s].roomId
             m == SeqRemove(rm[r], s)
         IN  {Event("user-left", t, s, uo[s].name, r, NoPayload, <<>>, Len(m)) :
                  t \in ToRoom(sr, r, s)}
             \cup {Event(IF Len(m) = 0 THEN "room-deleted" ELSE "room-updated",
                         t, Null, Null, r, NoPayload, <<>>, Len(m)) : t \in conn}
    ELSE {}

\* join-room: the condition under which the joiner first leaves its old room
LeavesOldRoom(oldRoomId, roomId) == Truthy(oldRoomId) /\ oldRoomId # roomId

\* a join-room that sets a new room record on every join
roomInitAlways(rm, roomId) ==
    [x \in DOMAIN rm \cup {roomId} |-> IF x = roomId THEN <<>> ELSE rm[x]]

\* join-room: `if (!rooms.has(roomId)) rooms.set(roomId, {users: new Map(), ...})`
roomInit(rm, roomId) ==
    IF roomId \notin DOMAIN rm
    THEN [x \in DOMAIN rm \cup {roomId} |-> IF x = roomId THEN <<>> ELSE rm[x]]
    ELSE rm

\* existingUsersInRoom without the `.filter(u => u.id !== socket.id)`
existingUsersInRoomUnfiltered(members, s) == members

\* join-room: existingUsersInRoom, the ids of room.users.values() without the joiner
existingUsersInRoom(members, s) == SelectSeq(members, LAMBDA id : id # s)

\* join-room: the {id, name} entries of the joined-room reply
UsersList(ids, uo) == [i \in 1..Len(ids) |-> [id |-> ids[i], name |-> uo[ids[i]].name]]

\* offer / answer / ice-candidate: `targetSocket && targetUser &&
\* fromUser.roomId === targetUser.roomId`
CanForward(s, target, conn, us, uo) ==
    /\ target \in conn
    /\ target \in us
    /\ uo[s].roomId = uo[target].roomId

\* a relay that passed candidates through filterICECandidate before forwarding
ForwardedPayloadFiltered(kind, payload) ==
    IF kind = "ice-candidate" /\ ~filterICECandidate(payload) THEN NoPayload ELSE payload

\* the payload field of a forwarded event: the sender's value, as received
ForwardedPayload(kind, payload) == payload

\* the event a forwarding handler emits on targetSocket
ForwardedEvent(kind, s, target, payload, uo) ==
    Event(kind, target, s, uo[s].name, Null, ForwardedPayload(kind, payload), <<>>, 0)

\* an else branch that reports call-failed for every kind of message
NotForwardedSentAlways(kind, s) ==
    {Event("call-failed", s, Null, Null, Null, NoPayload, <<>>, 0)}

\* the else branch: offer and answer report call-failed to the sender, the
\* ice-candidate handler only logs a warning
NotForwardedSent(kind, s) ==
    IF kind \in {"offer", "answer"}
    THEN {Event("call-failed", s, Null, Null, Null, NoPayload, <<>>, 0)}
    ELSE {}

\* a relay that reported the missing user record to every connected socket
userNotInitializedToAll(s) ==
    {Event("error", t, Null, Null, Null, NoPayload, <<>>, 0) : t \in Connected}

\* join-room without a user record: socket.emit('error', {message: 'User data
\* not initialized. Please refresh.'})
userNotInitialized(s) == {Event("error", s, Null, Null, Null, NoPayload, <<>>, 0)}

\* ------------------------------------------------------ relay: handlers

NoInput == Input("none", Null, Null, Null, Null, NoPayload)

RelayInit ==
    /\ sockState = [s \in Sockets |-> "fresh"]
    /\ users = {}
    /\ userObj = [s \in Sockets |-> [name |-> Null, roomId |-> Null]]
    /\ rooms = [r \in {} |-> <<>>]
    /\ sockRooms = [r \in RoomIds |-> {}]
    /\ handled = 0
    /\ last = NoInput
    /\ sent = {}
    /\ connectionMetrics = [s \in Sockets |-> NoMetrics]

\* io.on('connection'): a new socket id; users.set(socket.id, {name: null, roomId: null, ...})
Connection(s) ==
    /\ handled < MaxHandled
    /\ sockState[s] = "fresh"
    /\ sockState' = [sockState EXCEPT ![s] = "open"]
    /\ users' = users \cup {s}
    /\ userObj' = [userObj EXCEPT ![s] = [name |-> Null, roomId |-> Null]]
    /\ handled' = handled + 1
    /\ UNCHANGED <<engineVars, mediaVars>>
    /\ last' = Input("connection", s, Null, Null, Null, NoPayload)
    /\ sent' = {}
    /\ UNCHANGED <<rooms, sockRooms>>
    \* connectionMetrics.set(socket.id, {..., pendingOffers: 0})
    /\ connectionMetrics' = [connectionMetrics EXCEPT ![s] = 0]

\* socket.on('join-room') without a user record: error to the sender, return
JoinRoomNoUser(s, roomId, userName) ==
    /\ handled < MaxHandled
    /\ sockState[s] = "open"
    /\ s \notin users
    /\ handled' = handled + 1
    /\ UNCHANGED <<engineVars, mediaVars>>
    /\ last' = Input("join-room", s, roomId, userName, Null, NoPayload)
    /\ sent' = userNotInitialized(s)
    /\ UNCHANGED <<sockState, users, userObj, rooms, sockRooms>>
    /\ UNCHANGED connectionMetrics

\* socket.on('join-room') for a socket with a user record
JoinRoom(s, roomId, userName) ==
    /\ handled < MaxHandled
    /\ sockState[s] = "open"
    /\ s \in users
    /\ LET old == userObj[s].roomId
           switch == LeavesOldRoom(old, roomId)
           \* socket.leave(user.roomId); handleUserLeave(socket)
           sr1 == IF switch THEN [sockRooms EXCEPT ![old] = @ \ {s}] ELSE sockRooms
           rm1 == IF switch THEN handleUserLeaveRooms(s, users, userObj, rooms) ELSE rooms
           out1 == IF switch
                   THEN handleUserLeaveSent(s, users, userObj, rooms, sr1, Connected)
                   ELSE {}
           \* user.roomId = roomId; user.name = userName; users.set(socket.id, user)
           uo2 == [userObj EXCEPT ![s] = [name |-> userName, roomId |-> roomId]]
           \* socket.join(roomId)
           sr2 == [sr1 EXCEPT ![roomId] = @ \cup {s}]
           \* if (!rooms.has(roomId)) rooms.set(roomId, {users: new Map(), ...})
           created == roomId \notin DOMAIN rm1
           rm2 == roomInit(rm1, roomId)
           existing == existingUsersInRoom(rm2[roomId], s)
           \* room.users.set(socket.id, user)
           rm3 == [rm2 EXCEPT ![roomId] = MapSet(@, s)]
       IN  /\ userObj' = uo2
           /\ users' = users \cup {s}
           /\ sockRooms' = sr2
           /\ rooms' = rm3
           /\ sent' = out1
                \cup (IF created
                      THEN {Event("new-room-created", t, Null, Null, roomId, NoPayload, <<>>, 0) :
                                t \in Connected}
                      ELSE {})
                \cup {Event("joined-room", s, s, userName, roomId, NoPayload,
                            UsersList(existing, uo2), 0)}
                \cup {Event("user-joined", t, s, userName, roomId, NoPayload, <<>>, 0) :
                          t \in ToRoom(sr2, roomId, s)}
                \cup {Event("room-updated", t, Null, Null, roomId, NoPayload, <<>>,
                            Len(rm3[roomId])) : t \in Connected}
    /\ handled' = handled + 1
    /\ UNCHANGED <<engineVars, mediaVars>>
    /\ last' = Input("join-room", s, roomId, userName, Null, NoPayload)
    /\ UNCHANGED sockState
    \* handleUserLeave(socket) of a room switch: connectionMetrics.delete(socket.id)
    /\ connectionMetrics' = IF LeavesOldRoom(userObj[s].roomId, roomId)
                            THEN [connectionMetrics EXCEPT ![s] = NoMetrics]
                            ELSE connectionMetrics

\* the metrics kept when a message is forwarded: metrics.pendingOffers++ of
\* the sender of an offer; for an answer, metrics.pendingOffers-- of its target
\* if that is above 0
trackMetrics(kind, s, target, forwards, cm) ==
    IF ~forwards
    THEN cm
    ELSE IF kind = "offer"
    THEN [cm EXCEPT ![s] = IF @ = NoMetrics THEN @ ELSE @ + 1]
    ELSE IF kind = "answer" /\ cm[target] > 0
    THEN [cm EXCEPT ![target] = @ - 1]
    ELSE cm

\* a relay that forwards an answer only to a target with an offer pending
SignalInPhase(kind, s, target, payload) ==
    /\ handled < MaxHandled
    /\ sockState[s] = "open"
    /\ s \in users
    /\ LET forwards == /\ CanForward(s, target, Connected, users, userObj)
                       /\ kind = "answer" => connectionMetrics[target] > 0
       IN  /\ sent' = IF forwards
                      THEN {ForwardedEvent(kind, s, target, payload, userObj)}
                      ELSE NotForwardedSent(kind, s)
           /\ connectionMetrics' = trackMetrics(kind, s, target, forwards, connectionMetrics)
    /\ handled' = handled + 1
    /\ UNCHANGED <<engineVars, mediaVars>>
    /\ last' = Input(kind, s, Null, Null, target, payload)
    /\ UNCHANGED <<sockState, users, userObj, rooms, sockRooms>>

\* socket.on('offer' | 'answer' | 'ice-candidate') from a socket with a user
\* record: forward to the target or take the else branch
Signal(kind, s, target, payload) ==
    /\ handled < MaxHandled
    /\ sockState[s] = "open"
    /\ s \in users
    /\ sent' = IF CanForward(s, target, Connected, users, userObj)
               THEN {ForwardedEvent(kind, s, target, payload, userObj)}
               ELSE NotForwardedSent(kind, s)
    /\ handled' = handled + 1
    /\ UNCHANGED <<engineVars, mediaVars>>
    /\ last' = Input(kind, s, Null, Null, target, payload)
    /\ UNCHANGED <<sockState, users, userObj, rooms, sockRooms>>
    /\ connectionMetrics' = trackMetrics(kind, s, target,
                                       CanForward(s, target, Connected, users, userObj),
                                       connectionMetrics)

\* the same handlers when users.get(socket.id) is undefined: nothing happens
SignalNoUser(kind, s, target, payload) ==
    /\ handled < MaxHandled
    /\ sockState[s] = "open"
    /\ s \notin users
    /\ sent' = {}
    /\ handled' = handled + 1
    /\ UNCHANGED <<engineVars, mediaVars>>
    /\ last' = Input(kind, s, Null, Null, target, payload)
    /\ UNCHANGED <<sockState, users, userObj, rooms, sockRooms>>
    /\ UNCHANGED connectionMetrics

\* socket.on('leave-room'): handleUserLeave(socket); the socket stays in its
\* adapter rooms
LeaveRoom(s) ==
    /\ handled < MaxHandled
    /\ sockState[s] = "open"
    /\ rooms' = handleUserLeaveRooms(s, users, userObj, rooms)
    /\ users' = handleUserLeaveUsers(s, users)
    /\ sent' = handleUserLeaveSent(s, users, userObj, rooms, sockRooms, Connected)
    /\ handled' = handled + 1
    /\ UNCHANGED <<engineVars, mediaVars>>
    /\ last' = Input("leave-room", s, Null, Null, Null, NoPayload)
    /\ UNCHANGED <<sockState, userObj, sockRooms>>
    \* connectionMetrics.delete(socket.id)
    /\ connectionMetrics' = [connectionMetrics EXCEPT ![s] = NoMetrics]

\* socket.on('disconnect'): socket.io has already taken the socket out of
\* io.sockets.sockets and of every adapter room; handleUserLeave(socket)
Disconnect(s) ==
    /\ handled < MaxHandled
    /\ sockState[s] = "open"
    /\ sockState' = [sockState EXCEPT ![s] = "closed"]
    /\ sockRooms' = [r \in RoomIds |-> sockRooms[r] \ {s}]
    /\ rooms' = handleUserLeaveRooms(s, users, userObj, rooms)
    /\ users' = handleUserLeaveUsers(s, users)
    /\ sent' = handleUserLeaveSent(s, users, userObj, rooms, sockRooms', Connected \ {s})
    /\ handled' = handled + 1
    /\ UNCHANGED <<engineVars, mediaVars>>
    /\ last' = Input("disconnect", s, Null, Null, Null, NoPayload)
    /\ UNCHANGED userObj
    /\ connectionMetrics' = [connectionMetrics EXCEPT ![s] = NoMetrics]

Next ==
    \/ \E s \in Sockets : Connection(s)
    \/ \E s \in Sockets, r \in RoomIds, n \in UserNames : JoinRoom(s, r, n)
    \/ \E s \in Sockets, r \in RoomIds, n \in UserNames : JoinRoomNoUser(s, r, n)
    \/ \E k \in SignalKinds, s \in Sockets, t \in Sockets, p \in Payloads : Signal(k, s, t, p)
    \/ \E k \in SignalKinds, s \in Sockets, t \in Sockets, p \in Payloads : SignalNoUser(k, s, t, p)
    \/ \E s \in Sockets : LeaveRoom(s)
    \/ \E s \in Sockets : Disconnect(s)

\* ------------------------------------------------------- relay: claims

\* the last handler run was an offer, answer or ice-candidate
LastIsSignal == last.type \in SignalKinds

\* the forwarded copies among the events of the last handler run
Forwarded == {e \in sent : e.type \in SignalKinds}

\* s is a registered user that is a member of some room
InARoom(s) == s \in users /\ userObj[s].roomId # Null

\* C1: the relay forwards an offer, answer or ice-candidate only to its
\* target, and only if sender and target are both registered users that share
\* a room id; nothing is forwarded when the target is in another room.
\* (Stated for a target other than the sender.)
C1_ForwardOnlyWithinRoom ==
    (LastIsSignal /\ last.target # last.socket) =>
        /\ \A e \in Forwarded :
              /\ e.to = last.target
              /\ InARoom(last.socket) /\ InARoom(last.target)
              /\ userObj[last.socket].roomId = userObj[last.target].roomId
        /\ (InARoom(last.socket) /\ InARoom(last.target)
              /\ userObj[last.socket].roomId # userObj[last.target].roomId)
             => Forwarded = {}

\* C4: after every handler run no room of the room table has an empty member set.
C4_NoEmptyRoom == \A r \in DOMAIN rooms : Len(rooms[r]) > 0

\* C4 witness: a leave-room or disconnect removed the last member of a room
\* and the room was deleted in that handler run.
C4_Witness ==
    /\ last.type \in {"leave-room", "disconnect"}
    /\ \E e \in sent : e.type = "room-deleted" /\ e.room \notin DOMAIN rooms

\* the ids listed in a joined-room reply
ListIds(list) == {list[i].id : i \in 1..Len(list)}

\* C5: the users list of the joined-room reply to a join of room R is exactly
\* the member set R had before the handler ran, without the joiner and without
\* duplicates (empty when the join creates R).
C5_JoinedRoomListsPriorMembers ==
    [][\A e \in sent' :
          (last'.type = "join-room" /\ e.type = "joined-room") =>
              /\ ListIds(e.list) =
                   (IF last'.roomId \in DOMAIN rooms
                    THEN SeqSet(rooms[last'.roomId]) \ {last'.socket}
                    ELSE {})
              /\ Cardinality(ListIds(e.list)) = Len(e.list)
              /\ last'.socket \notin ListIds(e.list)]_vars

\* C5 witness: a user that was already a member of R joined R again and the
\* reply lists the other members.
C5_Witness ==
    /\ last.type = "join-room"
    /\ last.roomId \in DOMAIN rooms
    /\ Len(rooms[last.roomId]) >= 2
    /\ rooms[last.roomId][1] = last.socket
    /\ \E e \in sent : e.type = "joined-room" /\ Len(e.list) >= 1

\* the rooms whose member set holds s
RoomsOf(s) == {r \in DOMAIN rooms : s \in SeqSet(rooms[r])}

\* C6: every user id is in the member set of at most one room.
C6_AtMostOneRoom == \A s \in Sockets : Cardinality(RoomsOf(s)) <= 1

\* C9: whenever the relay does not forward an offer, an answer or an
\* ice-candidate, it sends call-failed to the sender.
C9_CallFailedWheneverNotForwarded ==
    (LastIsSignal /\ Forwarded = {}) =>
        \E e \in sent : e.type = "call-failed" /\ e.to = last.socket

\* C9 amended: an offer or answer of a registered sender that is not forwarded
\* is answered with exactly one call-failed, sent to the sender alone; an
\* ice-candidate that is not forwarded, and any message of a sender without a
\* user record, is dropped without a reply.
C9_CallFailedForOfferAndAnswer ==
    (LastIsSignal /\ Forwarded = {}) =>
        IF last.type \in {"offer", "answer"} /\ last.socket \in users
        THEN sent = {Event("call-failed", last.socket, Null, Null, Null, NoPayload, <<>>, 0)}
        ELSE sent = {}

\* C9 witness: an offer to a registered target in another room was answered
\* with call-failed.
C9_Witness ==
    /\ last.type = "offer"
    /\ InARoom(last.socket) /\ InARoom(last.target)
    /\ userObj[last.socket].roomId # userObj[last.target].roomId
    /\ \E e \in sent : e.type = "call-failed" /\ e.to = last.socket

\* C10: every forwarded message carries the sender's connection id, the
\* sender's registered name and the payload the sender supplied, unchanged.
C10_ForwardedAsSent ==
    \A e \in Forwarded :
        /\ e.type = last.type
        /\ e.from = last.socket
        /\ e.fromName = userObj[last.socket].name
        /\ e.payload = last.payload

\* C10 witness: a candidate that filterICECandidate would reject was forwarded
\* between two members of a room.
C10_Witness ==
    /\ last.type = "ice-candidate"
    /\ last.target # last.socket
    /\ userObj[last.socket].name # Null
    /\ ~filterICECandidate(last.payload)
    /\ \E e \in Forwarded : e.to = last.target /\ e.payload = last.payload

\* the last handler run admitted its sender to a room
Admitted == last.type = "join-room" /\ \E e \in sent : e.type = "joined-room"

\* C12: every join-room that is admitted leaves exactly one record for its room
\* id, holding the members the room had before and the joiner, each once, and
\* announces a new room only when the id was unseen; so two joins of an unseen
\* room id, in either order, leave one room with both users as members.
C12_JoinsShareOneRoomRecord ==
    [][Admitted' =>
          LET r == last'.roomId
              before == IF r \in DOMAIN rooms THEN SeqSet(rooms[r]) ELSE {}
          IN  /\ r \in DOMAIN rooms'
              /\ SeqSet(rooms'[r]) = before \cup {last'.socket}
              /\ Cardinality(SeqSet(rooms'[r])) = Len(rooms'[r])
              /\ (\E e \in sent' : e.type = "new-room-created") <=> r \notin DOMAIN rooms]_vars

\* C12 witness: the room of the last join has exactly two members, the joiner
\* being the second, and this join did not announce a new room.
C12_Witness ==
    /\ Admitted
    /\ last.roomId \in DOMAIN rooms
    /\ Len(rooms[last.roomId]) = 2
    /\ rooms[last.roomId][2] = last.socket
    /\ ~ \E e \in sent : e.type = "new-room-created"

\* the user-left events of the last handler run that socket t received
UserLeftTo(t) == {e \in sent : e.type = "user-left" /\ e.to = t}

\* C14: when a member leaves (leave-room or disconnect) a room that has other
\* members, every remaining member receives exactly one user-left, carrying the
\* leaver's id and the number of remaining members, and the room record is kept
\* with exactly the remaining members.
C14_RemainingMembersNotified ==
    [][\A r \in DOMAIN rooms :
          (/\ last'.type \in {"leave-room", "disconnect"}
           /\ last'.socket \in SeqSet(rooms[r])
           /\ Len(rooms[r]) >= 2)
          => /\ r \in DOMAIN rooms'
             /\ rooms'[r] = SeqRemove(rooms[r], last'.socket)
             /\ \A t \in SeqSet(rooms'[r]) :
                    /\ Cardinality(UserLeftTo(t)') = 1
                    /\ \A e \in UserLeftTo(t)' :
                           e.from = last'.socket /\ e.count = Len(rooms'[r])]_vars

\* C15: a join-room for room R2 by a member of a different room R1 removes the
\* user from R1 as a leave does (user-left to every remaining member of R1, R1
\* deleted when left empty) and admits the user to R2: afterwards the user is a
\* member of R2 only and its user record has roomId R2.
C15_SwitchLeavesOldRoom ==
    [][\A r1 \in DOMAIN rooms :
          (Admitted' /\ last'.socket \in SeqSet(rooms[r1]) /\ r1 # last'.roomId)
          => LET s == last'.socket
                 rest == SeqRemove(rooms[r1], s)
             IN  /\ s \in users' /\ userObj'[s].roomId = last'.roomId
                 /\ \A r \in DOMAIN rooms' : s \in SeqSet(rooms'[r]) <=> r = last'.roomId
                 /\ IF Len(rest) = 0
                    THEN r1 \notin DOMAIN rooms'
                    ELSE /\ r1 \in DOMAIN rooms' /\ rooms'[r1] = rest
                         /\ \A t \in SeqSet(rest) :
                                \E e \in UserLeftTo(t)' : e.from = s /\ e.room = r1]_vars

\* C16: a join-room from a connection without a user record is answered with
\* one error event, sent to that connection only, and changes neither the room
\* table nor the user table nor the socket rooms.
C16_JoinWithoutRecordIsRejected ==
    [][(last'.type = "join-room" /\ last'.socket \notin users)
          => /\ \E e \in sent' : e.type = "error" /\ e.to = last'.socket
             /\ \A e \in sent' : e.type = "error" /\ e.to = last'.socket
             /\ UNCHANGED <<rooms, users, userObj, sockRooms>>]_vars

\* C16 witness: a connection whose record was removed by leave-room asked to
\* join a room that has a member, and was answered with an error.
C16_Witness ==
    /\ last.type = "join-room"
    /\ last.socket \notin users
    /\ last.roomId \in DOMAIN rooms
    /\ last.socket \notin SeqSet(rooms[last.roomId])
    /\ \E e \in sent : e.type = "error" /\ e.to = last.socket

\* C17: the teardown run on leave-room and on disconnect leaves the connection
\* without a user record and without membership in any room, and when it runs
\* for a connection that has no user record any more it changes no registry
\* state and emits nothing.
C17_TeardownRemovesAndIsIdempotent ==
    [][last'.type \in {"leave-room", "disconnect"}
          => /\ last'.socket \notin users'
             /\ \A r \in DOMAIN rooms' : last'.socket \notin SeqSet(rooms'[r])
             /\ last'.socket \notin users
                   => (sent' = {} /\ UNCHANGED <<rooms, users, userObj>>)]_vars

\* the connections that received user-joined in the last handler run
UserJoinedReceivers == {e.to : e \in {x \in sent : x.type = "user-joined"}}

\* C18: the user-joined event of an admitted join of room R is delivered to
\* exactly the members of R other than the joiner.
C18_UserJoinedToMembersOnly ==
    Admitted =>
        UserJoinedReceivers = SeqSet(rooms[last.roomId]) \ {last.socket}

\* --------------------------------------------- engine: usePeerConnection

\* the remote peer ids the client may hear of
Peers == {PeerNames[i] : i \in 1..NumPeers}

\* new RTCPeerConnection(configuration), made for peer p by the handler `by`
\* of event ev; `after` is the session the peer had when that handler started
RTCPeerConnection(p, ev, by) ==
    [peer |-> p, ev |-> ev, by |-> by, after |-> 0, closed |-> FALSE,
     signalingState |-> "stable",
     remoteDescription |-> 0, localDescription |-> 0, applied |-> <<>>,
     iceConnectionState |-> "new", connectionState |-> "new",
     everConnected |-> FALSE, restarts |-> 0]

\* pc.close()
PcClose(cs, id) ==
    [cs EXCEPT ![id].closed = TRUE, ![id].signalingState = "closed",
               ![id].iceConnectionState = "closed", ![id].connectionState = "closed"]

\* iceCandidatesQueueRef.current[peerId]: undefined, or an array
NoQueue == [has |-> FALSE, items |-> <<>>]

EmptyQueue == [has |-> TRUE, items |-> <<>>]

\* useState(null) of connectionError
NoError == [type |-> "none", peer |-> "none"]

\* no handle stored under peerId nor under peerId_ice
NoTimeouts == [connect |-> 0, ice |-> 0]

Timer(kind, id) == [kind |-> kind, pc |-> id]

\* a suspended continuation: the event it handles, the handler, the peer, the
\* connection it captured, the await it is suspended at, the flush index
Task(ev, kind, p, id, pos, idx) ==
    [ev |-> ev, kind |-> kind, peer |-> p, pc |-> id, pos |-> pos, idx |-> idx]

\* a close after which the operations pending on the connection still settle
OrphansResume(ts, id) == {}

\* the continuations suspended on an operation of connection id: once the
\* connection is closed the operation's promise never settles
Orphans(ts, id) == {t \in ts : t.pos # "delay" /\ t.pc = id}

\* the per-peer engine state the operations below transform
Cur ==
    [conns |-> conns, pcs |-> peerConnections, queue |-> iceCandidatesQueue,
     timeouts |-> connectionTimeouts, timers |-> timers, tasks |-> tasks,
     streams |-> remoteStreamsRef, error |-> connectionError,
     status |-> connectionStatus]

Commit(E) ==
    /\ conns' = E.conns
    /\ peerConnections' = E.pcs
    /\ iceCandidatesQueue' = E.queue
    /\ connectionTimeouts' = E.timeouts
    /\ timers' = E.timers
    /\ tasks' = E.tasks
    /\ remoteStreamsRef' = E.streams
    /\ connectionError' = E.error
    /\ connectionStatus' = E.status

\* a closePeerConnection that, called on a session whose connection is open,
\* only closes the connection and releases the references on a later call
closePeerConnectionInTwoCalls(E, p) ==
    IF E.pcs[p] = 0
    THEN E
    ELSE LET id == E.pcs[p]
         IN  IF ~E.conns[id].closed
             THEN [E EXCEPT !.conns = PcClose(@, id), !.tasks = @ \ Orphans(@, id)]
             ELSE [E EXCEPT
                     !.timers = @ \ {Timer("connect", E.timeouts[p].connect),
                                     Timer("ice", E.timeouts[p].ice)},
                     !.timeouts[p] = NoTimeouts,
                     !.pcs[p] = 0,
                     !.queue[p] = NoQueue,
                     !.streams[p] = 0,
                 !.status[p] = "none"]

\* a closePeerConnection without `delete iceCandidatesQueueRef.current[peerId]`
closePeerConnectionKeepsQueue(E, p) ==
    IF E.pcs[p] = 0
    THEN E
    ELSE LET id == E.pcs[p]
         IN  [E EXCEPT
                 !.timers = @ \ {Timer("connect", E.timeouts[p].connect),
                                 Timer("ice", E.timeouts[p].ice)},
                 !.timeouts[p] = NoTimeouts,
                 !.conns = PcClose(@, id),
                 !.tasks = @ \ Orphans(@, id),
                 !.pcs[p] = 0,
                 !.streams[p] = 0,
                 !.status[p] = "none"]

\* a closePeerConnection that resets the whole candidate-queue map
closePeerConnectionClearsQueues(E, p) ==
    IF E.pcs[p] = 0
    THEN E
    ELSE LET id == E.pcs[p]
         IN  [E EXCEPT
                 !.timers = @ \ {Timer("connect", E.timeouts[p].connect),
                                 Timer("ice", E.timeouts[p].ice)},
                 !.timeouts[p] = NoTimeouts,
                 !.conns = PcClose(@, id),
                 !.tasks = @ \ Orphans(@, id),
                 !.pcs[p] = 0,
                 !.queue = [q \in Peers |-> NoQueue],
                 !.streams[p] = 0,
                 !.status[p] = "none"]

\* a closePeerConnection without `delete remoteStreamsRef.current[peerId]`
closePeerConnectionKeepsStream(E, p) ==
    IF E.pcs[p] = 0
    THEN E
    ELSE LET id == E.pcs[p]
         IN  [E EXCEPT
                 !.timers = @ \ {Timer("connect", E.timeouts[p].connect),
                                 Timer("ice", E.timeouts[p].ice)},
                 !.timeouts[p] = NoTimeouts,
                 !.conns = PcClose(@, id),
                 !.tasks = @ \ Orphans(@, id),
                 !.pcs[p] = 0,
                 !.queue[p] = NoQueue,
                 !.status[p] = "none"]

\* closePeerConnection(peerId)
closePeerConnection(E, p) ==
    IF E.pcs[p] = 0
    THEN E
    ELSE LET id == E.pcs[p]
         IN  [E EXCEPT
                 \* clearTimeout + delete of the handles under peerId and peerId_ice
                 !.timers = @ \ {Timer("connect", E.timeouts[p].connect),
                                 Timer("ice", E.timeouts[p].ice)},
                 !.timeouts[p] = NoTimeouts,
                 \* pc.close()
                 !.conns = PcClose(@, id),
                 !.tasks = @ \ Orphans(@, id),
                 \* delete the references
                 !.pcs[p] = 0,
                 !.queue[p] = NoQueue,
                 !.streams[p] = 0,
                 !.status[p] = "none"]

\* a createPeerConnection that arms no connect-timeout
createPeerConnectionNoTimeout(E, p, ev, by) ==
    LET old == E.pcs[p]
        id == Len(E.conns) + 1
        cs == IF old # 0 THEN PcClose(E.conns, old) ELSE E.conns
    IN  [E EXCEPT
            !.conns = Append(cs, [RTCPeerConnection(p, ev, by) EXCEPT !.after = old]),
            !.tasks = IF old # 0 THEN @ \ Orphans(@, old) ELSE @,
            !.pcs[p] = id,
            \* setConnectionStatus(prev => ({...prev, [peerId]: 'connecting'}))
            !.status[p] = "connecting",
            !.queue[p] = IF @.has THEN @ ELSE EmptyQueue]

\* createPeerConnection(peerId, localStream, onIceCandidate), called by the
\* handler `by` of event ev
createPeerConnection(E, p, ev, by) ==
    LET old == E.pcs[p]
        id == Len(E.conns) + 1
        \* if (peerConnectionsRef.current[peerId]) peerConnectionsRef.current[peerId].close()
        cs == IF old # 0 THEN PcClose(E.conns, old) ELSE E.conns
    IN  [E EXCEPT
            !.conns = Append(cs, [RTCPeerConnection(p, ev, by) EXCEPT !.after = old]),
            !.tasks = IF old # 0 THEN @ \ Orphans(@, old) ELSE @,
            !.pcs[p] = id,
            \* setConnectionStatus(prev => ({...prev, [peerId]: 'connecting'}))
            !.status[p] = "connecting",
            \* if (!iceCandidatesQueueRef.current[peerId]) iceCandidatesQueueRef.current[peerId] = []
            !.queue[p] = IF @.has THEN @ ELSE EmptyQueue,
            \* connectionTimeoutsRef.current[peerId] = setTimeout(..., CONNECTION_TIMEOUT)
            !.timeouts[p].connect = id,
            !.timers = @ \cup {Timer("connect", id)}]

\* processIceCandidateQueue(peerId): `pc && pc.remoteDescription && queue.length > 0`
FlushStarts(E, p) ==
    /\ E.pcs[p] # 0
    /\ E.conns[E.pcs[p]].remoteDescription # 0
    /\ Len(E.queue[p].items) > 0

\* the candidates pc.addIceCandidate rejects
Malformed == {a.id : a \in {x \in candidates : ~x.ok}}

\* pc.addIceCandidate(candidate) called on connection id: the candidate is
\* added unless the promise rejects
AddIceCandidate(cs, id, c) ==
    IF cs[id].closed \/ c \in Malformed
    THEN cs
    ELSE [cs EXCEPT ![id].applied = Append(@, c)]

\* the handler of task t returned nothing to emit
EmitForNothing(t) == EmptyBag

\* what the caller emits when the handler of task t returns a description:
\* emit('answer', {answer, targetUserId: fromUserId}) after handleOffer,
\* emit('offer', {offer, targetUserId: userId}) after createOffer
EmitFor(t) ==
    IF t.kind = "offer"
    THEN SetToBag({[type |-> "answer", target |-> t.peer, ev |-> t.ev]})
    ELSE IF t.kind = "join"
    THEN SetToBag({[type |-> "offer", target |-> t.peer, ev |-> t.ev]})
    ELSE EmptyBag

\* `for (const candidate of queue)`: the candidate the loop visits idx-th,
\* visiting the array from its end
QueuedAtFromEnd(items, idx) == items[Len(items) + 1 - idx]

\* `for (const candidate of queue)`: the candidate the loop visits idx-th
QueuedAt(items, idx) == items[idx]

\* ------------------------------------------ engine: events and continuations

EngineInit ==
    /\ conns = <<>>
    /\ peerConnections = [p \in Peers |-> 0]
    /\ iceCandidatesQueue = [p \in Peers |-> NoQueue]
    /\ connectionTimeouts = [p \in Peers |-> NoTimeouts]
    /\ timers = {}
    /\ tasks = {}
    /\ events = 0
    /\ emitted = EmptyBag
    /\ candidates = {}
    /\ isConnected = TRUE
    /\ remoteStreamsRef = [p \in Peers |-> 0]
    /\ connectionError = NoError
    /\ connectionStatus = [p \in Peers |-> "none"]
    /\ isMounted = TRUE
    /\ leftPeers = {}
    /\ joinedRoomReplies = {}

\* the handler of task t runs to its end
Finish(E, t) == [E EXCEPT !.tasks = @ \ {t}]

\* a handler that returns without calling processIceCandidateQueue
ProcessQueueSkipped(E, t) == Finish(E, t)

\* processIceCandidateQueue(peerId) called by the continuation t of
\* handleOffer / handleAnswer: either the loop starts and suspends at the
\* first pc.addIceCandidate, or the handler runs to its end
ProcessQueue(E, t) ==
    IF FlushStarts(E, t.peer)
    THEN LET id == E.pcs[t.peer]
         IN  [E EXCEPT
                 !.conns = AddIceCandidate(@, id, QueuedAt(E.queue[t.peer].items, 1)),
                 !.tasks = (@ \ {t}) \cup {[t EXCEPT !.pc = id, !.pos = "flush", !.idx = 1]}]
    ELSE Finish(E, t)

\* what the caller of the handler emits once the step has taken the engine to
\* E: the description the handler returned, if it has returned
EmittedBy(E, t) ==
    IF \A u \in E.tasks : u.ev # t.ev THEN EmitFor(t) ELSE EmptyBag

\* 'user-joined' {userId}: handleUserJoined arms the 1 s delay
UserJoined(p) ==
    /\ isConnected = TRUE
    /\ localStream # 0
    /\ events < MaxEvents
    /\ events' = events + 1
    /\ tasks' = tasks \cup {Task(events + 1, "join", p, 0, "delay", 0)}
    /\ leftPeers' = leftPeers \ {p}
    /\ UNCHANGED <<conns, peerConnections, iceCandidatesQueue, connectionTimeouts, timers,
                   emitted, candidates>>
    /\ UNCHANGED <<relayVars, isConnected, isMounted, joinedRoomReplies, mediaVars, remoteStreamsRef,
                   connectionError, connectionStatus>>

\* the delayed part of handleUserJoined: createPeerConnection(userId, ...), then
\* createOffer(userId) up to `await pc.createOffer(offerOptions)`
UserJoinedDelay(t) ==
    /\ t \in tasks /\ t.pos = "delay"
    /\ Len(conns) < MaxConns
    /\ IF isMounted
       THEN LET E1 == createPeerConnection(Cur, t.peer, t.ev, "join")
                id == E1.pcs[t.peer]
            IN  Commit([E1 EXCEPT !.tasks = (@ \ {t}) \cup
                                       {[t EXCEPT !.pc = id, !.pos = "createOffer"]}])
       ELSE Commit(Finish(Cur, t))
    /\ UNCHANGED <<events, emitted, candidates>>
    /\ UNCHANGED <<relayVars, isConnected, isMounted, joinedRoomReplies, leftPeers, mediaVars>>

\* createOffer resumes after `await pc.createOffer(...)`: pc.setLocalDescription(offer)
CreateOfferDone(t) ==
    /\ t \in tasks /\ t.pos = "createOffer"
    /\ tasks' = (tasks \ {t}) \cup {[t EXCEPT !.pos = "setLocalOffer"]}
    /\ UNCHANGED <<conns, peerConnections, iceCandidatesQueue, connectionTimeouts, timers,
                   events, emitted, candidates>>
    /\ UNCHANGED <<relayVars, isConnected, isMounted, joinedRoomReplies, leftPeers, mediaVars, remoteStreamsRef,
                   connectionError, connectionStatus>>

\* createOffer resumes after `await pc.setLocalDescription(offer)`: arms the ICE
\* gathering timeout under peerId_ice, returns pc.localDescription; the caller
\* emits 'offer'
SetLocalOfferDone(t) ==
    /\ t \in tasks /\ t.pos = "setLocalOffer"
    /\ LET E1 == [Cur EXCEPT
                     !.conns[t.pc].localDescription = t.ev,
                     !.conns[t.pc].signalingState = "have-local-offer",
                     !.timeouts[t.peer].ice = t.pc,
                     !.timers = @ \cup {Timer("ice", t.pc)}]
           E2 == Finish(E1, t)
       IN  /\ Commit(E2)
           /\ emitted' = emitted (+) EmittedBy(E2, t)
    /\ UNCHANGED <<events, candidates>>
    /\ UNCHANGED <<relayVars, isConnected, isMounted, joinedRoomReplies, leftPeers, mediaVars>>

\* 'offer' {offer, fromUserId}: the component closes an existing session, then
\* usePeerConnection.handleOffer creates the connection and suspends at
\* `await pc.setRemoteDescription(offer)`
Offer(p) ==
    /\ isConnected = TRUE
    /\ localStream # 0
    /\ events < MaxEvents
    /\ Len(conns) < MaxConns
    /\ events' = events + 1
    /\ LET E1 == closePeerConnection(Cur, p)
           E2 == createPeerConnection(E1, p, events + 1, "offer")
           id == E2.pcs[p]
       IN  Commit([E2 EXCEPT !.conns[id].after = peerConnections[p],
                             !.tasks = @ \cup
                                  {Task(events + 1, "offer", p, id, "setRemote", 0)}])
    /\ leftPeers' = leftPeers \ {p}
    /\ UNCHANGED <<emitted, candidates>>
    /\ UNCHANGED <<relayVars, isConnected, isMounted, joinedRoomReplies, mediaVars>>

\* handleOffer resumes after `await pc.setRemoteDescription(offer)`: pc.createAnswer()
SetRemoteOfferDone(t) ==
    /\ t \in tasks /\ t.kind = "offer" /\ t.pos = "setRemote"
    /\ conns' = [conns EXCEPT ![t.pc].remoteDescription = t.ev,
                              ![t.pc].signalingState = "have-remote-offer"]
    \* pc.ontrack: remoteStreamsRef.current[peerId] = remoteStream
    /\ remoteStreamsRef' = [remoteStreamsRef EXCEPT ![t.peer] = t.pc]
    /\ tasks' = (tasks \ {t}) \cup {[t EXCEPT !.pos = "createAnswer"]}
    /\ UNCHANGED <<peerConnections, iceCandidatesQueue, connectionTimeouts, timers,
                   events, emitted, candidates>>
    /\ UNCHANGED <<relayVars, isConnected, isMounted, joinedRoomReplies, leftPeers, mediaVars, connectionError, connectionStatus>>

\* handleOffer resumes after `await pc.createAnswer()`: pc.setLocalDescription(answer)
CreateAnswerDone(t) ==
    /\ t \in tasks /\ t.pos = "createAnswer"
    /\ tasks' = (tasks \ {t}) \cup {[t EXCEPT !.pos = "setLocalAnswer"]}
    /\ UNCHANGED <<conns, peerConnections, iceCandidatesQueue, connectionTimeouts, timers,
                   events, emitted, candidates>>
    /\ UNCHANGED <<relayVars, isConnected, isMounted, joinedRoomReplies, leftPeers, mediaVars, remoteStreamsRef,
                   connectionError, connectionStatus>>

\* handleOffer resumes after `await pc.setLocalDescription(answer)`:
\* processIceCandidateQueue(peerId), then return pc.localDescription; the
\* component emits 'answer'
SetLocalAnswerDone(t) ==
    /\ t \in tasks /\ t.pos = "setLocalAnswer"
    /\ LET E1 == [Cur EXCEPT !.conns[t.pc].localDescription = t.ev,
                             !.conns[t.pc].signalingState = "stable"]
           E2 == ProcessQueue(E1, t)
       IN  /\ Commit(E2)
           /\ emitted' = emitted (+) EmittedBy(E2, t)
    /\ UNCHANGED <<events, candidates>>
    /\ UNCHANGED <<relayVars, isConnected, isMounted, joinedRoomReplies, leftPeers, mediaVars>>

\* 'answer' {answer, fromUserId}: usePeerConnection.handleAnswer returns false
\* without a connection, else suspends at `await pc.setRemoteDescription(answer)`
Answer(p) ==
    /\ isConnected = TRUE
    /\ localStream # 0
    /\ events < MaxEvents
    /\ events' = events + 1
    /\ IF peerConnections[p] = 0
       THEN UNCHANGED tasks
       ELSE tasks' = tasks \cup
                {Task(events + 1, "answer", p, peerConnections[p], "setRemote", 0)}
    /\ UNCHANGED <<conns, peerConnections, iceCandidatesQueue, connectionTimeouts, timers,
                   emitted, candidates>>
    /\ UNCHANGED <<relayVars, isConnected, isMounted, joinedRoomReplies, leftPeers, mediaVars, remoteStreamsRef,
                   connectionError, connectionStatus>>

\* handleAnswer resumes after `await pc.setRemoteDescription(answer)`: the
\* promise rejects unless the connection has a local offer outstanding; on
\* success processIceCandidateQueue(peerId)
SetRemoteAnswerDone(t) ==
    /\ t \in tasks /\ t.kind = "answer" /\ t.pos = "setRemote"
    /\ IF conns[t.pc].signalingState = "have-local-offer"
       THEN LET E1 == [Cur EXCEPT !.conns[t.pc].remoteDescription = t.ev,
                                  !.conns[t.pc].signalingState = "stable",
                                  \* pc.ontrack
                                  !.streams[t.peer] = t.pc]
            IN  Commit(ProcessQueue(E1, t))
       ELSE Commit(Finish(Cur, t))
    /\ UNCHANGED <<events, emitted, candidates>>
    /\ UNCHANGED <<relayVars, isConnected, isMounted, joinedRoomReplies, leftPeers, mediaVars>>

\* a processIceCandidateQueue whose try/catch encloses the loop: the first
\* rejected candidate ends the flush, and the handler, with the queue as it is
FlushStepStopsAtFailure(t) ==
    /\ t \in tasks /\ t.pos = "flush"
    /\ LET items == iceCandidatesQueue[t.peer].items
       IN  IF t.idx < Len(items) /\ QueuedAt(items, t.idx + 1) \in Malformed
           THEN /\ Commit(Finish(Cur, t))
                /\ UNCHANGED emitted
           ELSE IF t.idx < Len(items)
           THEN /\ Commit([Cur EXCEPT
                              !.conns = AddIceCandidate(@, t.pc, QueuedAt(items, t.idx + 1)),
                              !.tasks = (@ \ {t}) \cup {[t EXCEPT !.idx = t.idx + 1]}])
                /\ UNCHANGED emitted
           ELSE LET E2 == Finish([Cur EXCEPT !.queue[t.peer] = EmptyQueue], t)
                IN  /\ Commit(E2)
                    /\ emitted' = emitted (+) EmittedBy(E2, t)
    /\ UNCHANGED <<events, candidates>>
    /\ UNCHANGED <<relayVars, isConnected, isMounted, joinedRoomReplies, leftPeers, mediaVars>>

\* processIceCandidateQueue resumes after `await pc.addIceCandidate(...)`: the
\* next candidate of the array, or after the last one
\* `iceCandidatesQueueRef.current[peerId] = []` and the handler runs to its end
FlushStep(t) ==
    /\ t \in tasks /\ t.pos = "flush"
    /\ LET items == iceCandidatesQueue[t.peer].items
       IN  IF t.idx < Len(items)
           THEN /\ Commit([Cur EXCEPT
                              !.conns = AddIceCandidate(@, t.pc, QueuedAt(items, t.idx + 1)),
                              !.tasks = (@ \ {t}) \cup {[t EXCEPT !.idx = t.idx + 1]}])
                /\ UNCHANGED emitted
           ELSE LET E2 == Finish([Cur EXCEPT !.queue[t.peer] = EmptyQueue], t)
                IN  /\ Commit(E2)
                    /\ emitted' = emitted (+) EmittedBy(E2, t)
    /\ UNCHANGED <<events, candidates>>
    /\ UNCHANGED <<relayVars, isConnected, isMounted, joinedRoomReplies, leftPeers, mediaVars>>

\* addIceCandidate(peerId, candidate): queued when there is no connection or no
\* remote description
QueuesCandidate(pcs, cs, p) == pcs[p] = 0 \/ cs[pcs[p]].remoteDescription = 0

\* what is recorded of a candidate on arrival: the session of its peer at that
\* moment (0 if none) and whether that session had a remote description
Arrival(c, p, queued) ==
    [id |-> c, peer |-> p, queued |-> queued, ok |-> TRUE, pc |-> peerConnections[p],
     remote |-> peerConnections[p] # 0 /\ conns[peerConnections[p]].remoteDescription # 0]

\* 'ice-candidate' {candidate, fromUserId}: addIceCandidate(fromUserId, candidate)
IceCandidate(p) ==
    /\ isConnected = TRUE
    /\ localStream # 0
    /\ events < MaxEvents
    /\ events' = events + 1
    /\ IF QueuesCandidate(peerConnections, conns, p)
       THEN /\ iceCandidatesQueue' =
                  [iceCandidatesQueue EXCEPT
                      ![p] = [has |-> TRUE, items |-> Append(@.items, events + 1)]]
            /\ candidates' = candidates \cup {Arrival(events + 1, p, TRUE)}
            /\ UNCHANGED conns
       ELSE /\ conns' = AddIceCandidate(conns, peerConnections[p], events + 1)
            /\ candidates' = candidates \cup {Arrival(events + 1, p, FALSE)}
            /\ UNCHANGED iceCandidatesQueue
    /\ UNCHANGED <<peerConnections, connectionTimeouts, timers, tasks, emitted>>
    /\ UNCHANGED <<relayVars, isConnected, isMounted, joinedRoomReplies, leftPeers, mediaVars, remoteStreamsRef,
                   connectionError, connectionStatus>>

\* 'user-left' {userId}: closePeerConnection(userId)
UserLeft(p) ==
    /\ isConnected = TRUE
    /\ localStream # 0
    /\ events < MaxEvents
    /\ events' = events + 1
    /\ Commit(closePeerConnection(Cur, p))
    /\ leftPeers' = leftPeers \cup {p}
    /\ UNCHANGED <<emitted, candidates>>
    /\ UNCHANGED <<relayVars, isConnected, isMounted, joinedRoomReplies, mediaVars>>

\* the connect-timeout armed by createPeerConnection fires
ConnectionTimeout(tm) ==
    /\ tm \in timers /\ tm.kind = "connect"
    /\ LET E1 == [Cur EXCEPT !.timers = @ \ {tm}]
       IN  IF conns[tm.pc].connectionState \in {"connecting", "new"}
           THEN \* setConnectionError(`Connection timeout for ${peerId}`)
                Commit(closePeerConnection(
                           [E1 EXCEPT !.error = [type |-> "timeout", peer |-> conns[tm.pc].peer]],
                           conns[tm.pc].peer))
           ELSE Commit(E1)
    /\ UNCHANGED <<events, emitted, candidates>>
    /\ UNCHANGED <<relayVars, isConnected, isMounted, joinedRoomReplies, leftPeers, mediaVars>>

\* the ICE gathering timeout armed by createOffer fires: it only logs
IceGatheringTimeout(tm) ==
    /\ tm \in timers /\ tm.kind = "ice"
    /\ timers' = timers \ {tm}
    /\ UNCHANGED <<conns, peerConnections, iceCandidatesQueue, connectionTimeouts, tasks,
                   events, emitted, candidates>>
    /\ UNCHANGED <<relayVars, isConnected, isMounted, joinedRoomReplies, leftPeers, mediaVars, remoteStreamsRef,
                   connectionError, connectionStatus>>

\* a 'connected' report that leaves the connect-timeout armed
clearConnectionTimeoutNot(E, p) == E

\* if (connectionTimeoutsRef.current[peerId]) { clearTimeout(...); delete ... }
clearConnectionTimeout(E, p) ==
    [E EXCEPT !.timers = @ \ {Timer("connect", E.timeouts[p].connect)},
              !.timeouts[p].connect = 0]

\* pc.oniceconnectionstatechange with state 'connected' or 'completed': clears
\* the handle stored under peerId
IceConnected(id) ==
    /\ id \in 1..Len(conns)
    /\ ~conns[id].closed
    /\ conns[id].remoteDescription # 0 /\ conns[id].localDescription # 0
    /\ conns[id].iceConnectionState \in {"new", "checking"}
    /\ LET p == conns[id].peer
       IN  Commit([clearConnectionTimeout(Cur, p) EXCEPT
                      !.conns[id].iceConnectionState = "connected",
                      !.status[p] = "connected",
                      !.conns[id].everConnected = TRUE,
                      !.conns[id].connectionState = "connected"])
    /\ UNCHANGED <<events, emitted, candidates>>
    /\ UNCHANGED <<relayVars, isConnected, isMounted, joinedRoomReplies, leftPeers, mediaVars>>

EngineNext ==
    \/ \E p \in Peers : UserJoined(p)
    \/ \E t \in tasks : UserJoinedDelay(t)
    \/ \E t \in tasks : CreateOfferDone(t)
    \/ \E t \in tasks : SetLocalOfferDone(t)
    \/ \E p \in Peers : Offer(p)
    \/ \E t \in tasks : SetRemoteOfferDone(t)
    \/ \E t \in tasks : CreateAnswerDone(t)
    \/ \E t \in tasks : SetLocalAnswerDone(t)
    \/ \E p \in Peers : Answer(p)
    \/ \E t \in tasks : SetRemoteAnswerDone(t)
    \/ \E t \in tasks : FlushStep(t)
    \/ \E p \in Peers : IceCandidate(p)
    \/ \E p \in Peers : UserLeft(p)
    \/ \E tm \in timers : ConnectionTimeout(tm)
    \/ \E tm \in timers : IceGatheringTimeout(tm)
    \/ \E id \in 1..MaxConns : IceConnected(id)

\* ------------------------------------------------- media: updateStream
Kinds == {"audio", "video"}

\* the i-th track of the stream numbered n
MediaStreamTrack(k, n, i) == [kind |-> k, stream |-> n, no |-> i]

\* stream.getTracks(): the order of the tracks is up to the browser
getTracks(stream) ==
    [i \in DOMAIN stream.kinds |-> MediaStreamTrack(stream.kinds[i], stream.id, i)]

\* the stream of getUserMedia(true, true): one audio and one video track
LocalStreams ==
    {[id |-> 0, kinds |-> ks] : ks \in {<<"audio", "video">>, <<"video", "audio">>}}

\* the n-th stream of getDisplayMedia({video, audio: true}): one video track
\* and, when audio is shared as well, one audio track
ScreenStreams(n) ==
    {[id |-> n, kinds |-> ks] :
        ks \in {<<"video">>, <<"audio", "video">>, <<"video", "audio">>}}

RTCRtpSender(track) == [track |-> track]

\* createPeerConnection: pc.addTrack(track, localStream) for every local track
addTracks(stream) ==
    [i \in DOMAIN getTracks(stream) |-> RTCRtpSender(getTracks(stream)[i])]

\* a find that looks for the sender of the very track: s.track === track
findSenderOfTrack(ss, snap, track) ==
    LET m == {j \in 1..snap : ss[j].track = track}
    IN  IF m = {} THEN 0 ELSE CHOOSE j \in m : \A x \in m : j <= x

\* senders.find(s => s.track?.kind === track.kind) over the senders that
\* getSenders() returned when the call started (the first snap ones); 0: none
findSender(ss, snap, track) ==
    LET m == {j \in 1..snap : ss[j].track.kind = track.kind}
    IN  IF m = {} THEN 0 ELSE CHOOSE j \in m : \A x \in m : j <= x

\* the for loop of updateStream from track i on, up to its next
\* `await sender.replaceTrack(track)` or to its end; a track of a kind without
\* a sender is added with pc.addTrack
RECURSIVE replaceTracks(_, _, _, _)
replaceTracks(ss, snap, tracks, i) ==
    IF i > Len(tracks)
    THEN [senders |-> ss, i |-> i]
    ELSE IF findSender(ss, snap, tracks[i]) # 0
         THEN [senders |-> ss, i |-> i]
         ELSE replaceTracks(Append(ss, RTCRtpSender(tracks[i])), snap, tracks, i + 1)

\* updateStream(peerId, newStream) for a peer that has a connection, up to its
\* first await
UpdateStream(newStream) ==
    /\ senders # <<>>
    /\ newStream.id = Cardinality(updates) + 1
    /\ LET tracks == getTracks(newStream)
           r == replaceTracks(senders, Len(senders), tracks, 1)
       IN  /\ senders' = r.senders
           /\ updates' = updates \cup
                  {[id |-> newStream.id, tracks |-> tracks, snap |-> Len(senders),
                    i |-> r.i]}
           /\ chain' = IF r.i <= Len(tracks) THEN Append(chain, newStream.id) ELSE chain
    /\ UNCHANGED <<relayVars, engineVars, localStream>>

\* the oldest pending sender.replaceTrack(track) settles: the sender carries
\* the track, and the call that awaited it goes on with its next track
ReplaceTrackDone ==
    /\ chain # <<>>
    /\ LET c == CHOOSE u \in updates : u.id = Head(chain)
           track == c.tracks[c.i]
           j == findSender(senders, c.snap, track)
           r == replaceTracks([senders EXCEPT ![j].track = track], c.snap, c.tracks,
                              c.i + 1)
       IN  /\ senders' = r.senders
           /\ updates' = (updates \ {c}) \cup {[c EXCEPT !.i = r.i]}
           /\ chain' = IF r.i <= Len(c.tracks)
                       THEN Append(Tail(chain), c.id)
                       ELSE Tail(chain)
    /\ UNCHANGED <<relayVars, engineVars, localStream>>

\* the for loop of updateStream from track i on, every
\* `await sender.replaceTrack(track)` having settled, to its end
RECURSIVE updateStreamToEnd(_, _, _, _)
updateStreamToEnd(ss, snap, tracks, i) ==
    LET r == replaceTracks(ss, snap, tracks, i)
    IN  IF r.i > Len(tracks)
        THEN r.senders
        ELSE updateStreamToEnd(
                 [r.senders EXCEPT ![findSender(r.senders, snap, tracks[r.i])].track =
                                        tracks[r.i]],
                 snap, tracks, r.i + 1)

\* the sequences of track kinds of the given lengths
KindSeqs(lens) == UNION {[1..n -> Kinds] : n \in lens}

\* any stream numbered n: up to MaxTracks tracks, of any kinds
AnyStreams(n) == {[id |-> n, kinds |-> ks] : ks \in KindSeqs(1..MaxTracks)}

\* updateStream(peerId, newStream) called for the nth time in a row with the
\* same stream object on a connection on which no other call is pending, and
\* run until it returns
UpdateStreamInARow(newStream, nth) ==
    /\ chain = <<>>
    /\ LET ids == {u.id : u \in updates}
           tracks == getTracks(newStream)
       IN  /\ IF nth = 1
              THEN newStream.id = Cardinality(ids) + 1
              ELSE /\ newStream.id = Cardinality(ids)
                   /\ \E u \in updates :
                         u.id = newStream.id /\ u.tracks = tracks /\ u.nth = nth - 1
                   /\ \A u \in updates : u.id = newStream.id => u.nth < nth
           /\ senders' = updateStreamToEnd(senders, Len(senders), tracks, 1)
           /\ updates' = updates \cup
                  {[id |-> newStream.id, tracks |-> tracks, snap |-> Len(senders),
                    i |-> Len(tracks) + 1, nth |-> nth]}
    /\ UNCHANGED chain
    /\ UNCHANGED <<relayVars, engineVars, localStream>>

InARowNext ==
    \E n \in 1..NumScreens : \E newStream \in AnyStreams(n) : \E nth \in 1..2 :
        UpdateStreamInARow(newStream, nth)

SendersNext ==
    \/ \E n \in 1..NumScreens : \E newStream \in ScreenStreams(n) : UpdateStream(newStream)
    \/ ReplaceTrackDone

\* no connection yet
MediaInit ==
    /\ senders = <<>>
    /\ updates = {}
    /\ chain = <<>>
    /\ localStream = 1

\* a connection created with the local stream
SendersInit ==
    /\ \E stream \in LocalStreams : senders = addTracks(stream)
    /\ updates = {}
    /\ chain = <<>>
    /\ localStream = 1

\* a connection with any senders: up to MaxTracks tracks of any kinds added
AnySendersInit ==
    /\ \E ks \in KindSeqs(0..MaxTracks) : senders = addTracks([id |-> 0, kinds |-> ks])
    /\ updates = {}
    /\ chain = <<>>
    /\ localStream = 1

\* what the join-room effect of VideoCall emits when isConnected changes
JoinEffect(type, ev) == SetToBag({[type |-> type, target |-> "relay", ev |-> ev]})

\* closeAllPeerConnections(): closePeerConnection for every key of
\* peerConnectionsRef.current
RECURSIVE closeEach(_, _)
closeEach(E, ps) ==
    IF ps = {}
    THEN E
    ELSE LET p == CHOOSE x \in ps : TRUE
         IN  closeEach(closePeerConnection(E, p), ps \ {p})

closeAllPeerConnections(E) ==
    \* setConnectionStatus({})
    [closeEach(E, {p \in Peers : E.pcs[p] # 0}) EXCEPT
        !.status = [p \in Peers |-> "none"]]

\* newSocket.on('disconnect'): setIsConnected(false), which gives `emit` a new
\* identity; the effects of VideoCall that depend on it are cleaned up: the
\* join-room effect emits leave-room, the listeners are removed, and the
\* cleanup effect calls closeAllPeerConnections()
TransportLost ==
    /\ isConnected = TRUE
    /\ events < MaxEvents
    /\ events' = events + 1
    /\ isConnected' = FALSE
    \* the cleanup of the join-room effect: hasJoinedRef.current && isMountedRef.current
    /\ emitted' = IF localStream # 0
                  THEN emitted (+) JoinEffect("leave-room", events + 1)
                  ELSE emitted
    /\ Commit(closeAllPeerConnections(Cur))
    /\ UNCHANGED <<candidates, isMounted, joinedRoomReplies, leftPeers>>
    /\ UNCHANGED <<relayVars, mediaVars>>

\* newSocket.on('connect') after a loss: setIsConnected(true); the join-room
\* effect emits join-room again and the listeners are registered again
TransportRestored ==
    /\ ~isConnected
    /\ isMounted
    /\ events < MaxEvents
    /\ events' = events + 1
    /\ isConnected' = TRUE
    \* the join-room effect returns early without a local stream
    /\ emitted' = IF localStream # 0
                  THEN emitted (+) JoinEffect("join-room", events + 1)
                  ELSE emitted
    /\ UNCHANGED <<conns, peerConnections, iceCandidatesQueue, connectionTimeouts, timers,
                   tasks, candidates, remoteStreamsRef, connectionError, isMounted, joinedRoomReplies, leftPeers,
                   connectionStatus>>
    /\ UNCHANGED <<relayVars, mediaVars>>

\* hangUp(): emit('leave-room'), closeAllPeerConnections(), navigate('/'); the
\* call view unmounts: usePeerConnection clears every handle still stored in
\* connectionTimeoutsRef, useSocket disconnects the socket
HangUp ==
    /\ isMounted
    /\ events < MaxEvents
    /\ events' = events + 1
    /\ emitted' = IF isConnected
                  THEN emitted (+) JoinEffect("leave-room", events + 1)
                  ELSE emitted
    /\ LET E1 == closeAllPeerConnections(Cur)
           stored == {Timer("connect", E1.timeouts[p].connect) : p \in Peers}
                         \cup {Timer("ice", E1.timeouts[p].ice) : p \in Peers}
       IN  Commit([E1 EXCEPT !.timers = @ \ stored])
    /\ isMounted' = FALSE
    /\ isConnected' = FALSE
    /\ UNCHANGED <<candidates, leftPeers, joinedRoomReplies>>
    /\ UNCHANGED <<relayVars, mediaVars>>

\* the delay armed by oniceconnectionstatechange on 'failed'; its handle is
\* not stored
RestartTimer(id, n) == [kind |-> "restart", pc |-> id, n |-> n]

\* pc.oniceconnectionstatechange with state 'failed': arms the 1 s restart
\* delay; pc.onconnectionstatechange with state 'failed':
\* setConnectionError(`Connection failed for ${peerId}`)
IceFailed(id) ==
    /\ id \in 1..Len(conns)
    /\ ~conns[id].closed
    /\ events < MaxEvents
    /\ events' = events + 1
    /\ conns[id].remoteDescription # 0 /\ conns[id].localDescription # 0
    /\ conns[id].iceConnectionState \in {"new", "checking", "connected"}
    /\ Cardinality({tm \in timers : tm.kind = "restart" /\ tm.pc = id})
         + conns[id].restarts < MaxFailed
    /\ LET n == Cardinality({tm \in timers : tm.kind = "restart" /\ tm.pc = id})
                  + conns[id].restarts + 1
       IN  Commit([Cur EXCEPT
                      !.conns[id].iceConnectionState = "failed",
                      !.status[conns[id].peer] = "failed",
                      !.conns[id].connectionState = "failed",
                      !.timers = @ \cup {RestartTimer(id, n)},
                      !.error = [type |-> "failed", peer |-> conns[id].peer]])
    /\ UNCHANGED <<emitted, candidates>>
    /\ UNCHANGED <<relayVars, isConnected, isMounted, joinedRoomReplies, leftPeers, mediaVars>>

\* the restart delay fires: if (pc.signalingState === 'stable') pc.restartIce()
IceRestartDelay(tm) ==
    /\ tm \in timers /\ tm.kind = "restart"
    /\ LET E1 == [Cur EXCEPT !.timers = @ \ {tm}]
       IN  IF conns[tm.pc].signalingState = "stable"
           THEN Commit([E1 EXCEPT !.conns[tm.pc].restarts = @ + 1])
           ELSE Commit(E1)
    /\ UNCHANGED <<events, emitted, candidates>>
    /\ UNCHANGED <<relayVars, isConnected, isMounted, joinedRoomReplies, leftPeers, mediaVars>>

\* pc.oniceconnectionstatechange with state 'checking' after a failure: the
\* agent tries candidate pairs again; the handler only records the state
IceChecking(id) ==
    /\ id \in 1..Len(conns)
    /\ ~conns[id].closed
    /\ events < MaxEvents
    /\ events' = events + 1
    /\ conns[id].iceConnectionState = "failed"
    /\ Commit([Cur EXCEPT !.conns[id].iceConnectionState = "checking",
                          !.status[conns[id].peer] = "checking",
                          !.conns[id].connectionState = "connecting"])
    /\ UNCHANGED <<emitted, candidates>>
    /\ UNCHANGED <<relayVars, isConnected, isMounted, joinedRoomReplies, leftPeers, mediaVars>>

\* 'ice-candidate' with a candidate that pc.addIceCandidate rejects: the
\* rejection is caught and logged
IceCandidateMalformed(p) ==
    /\ isConnected = TRUE
    /\ localStream # 0
    /\ events < MaxEvents
    /\ events' = events + 1
    /\ IF QueuesCandidate(peerConnections, conns, p)
       THEN /\ iceCandidatesQueue' =
                  [iceCandidatesQueue EXCEPT
                      ![p] = [has |-> TRUE, items |-> Append(@.items, events + 1)]]
            /\ candidates' = candidates \cup
                  {[Arrival(events + 1, p, TRUE) EXCEPT !.ok = FALSE]}
            /\ UNCHANGED conns
       ELSE /\ candidates' = candidates \cup
                  {[Arrival(events + 1, p, FALSE) EXCEPT !.ok = FALSE]}
            /\ UNCHANGED <<conns, iceCandidatesQueue>>
    /\ UNCHANGED <<peerConnections, connectionTimeouts, timers, tasks, emitted>>
    /\ UNCHANGED <<relayVars, isConnected, isMounted, joinedRoomReplies, leftPeers, mediaVars, remoteStreamsRef,
                   connectionError, connectionStatus>>

\* pc.oniceconnectionstatechange with state 'completed': the agent has
\* finished checking; the handler records the state and clears the handle
\* stored under peerId
IceCompleted(id) ==
    /\ id \in 1..Len(conns)
    /\ ~conns[id].closed
    /\ conns[id].iceConnectionState = "connected"
    /\ LET p == conns[id].peer
       IN  Commit([clearConnectionTimeout(Cur, p) EXCEPT
                      !.conns[id].iceConnectionState = "completed",
                      !.status[p] = "completed"])
    /\ UNCHANGED <<events, emitted, candidates>>
    /\ UNCHANGED <<relayVars, isConnected, isMounted, joinedRoomReplies, leftPeers, mediaVars>>

\* the continuation of handleToggleScreenShare suspended at
\* `await startScreenShare()`, with the connectionStatus its closure holds
ShareTask(ev, status) ==
    [ev |-> ev, kind |-> "share", peer |-> "none", pc |-> 0, pos |-> "startScreenShare",
     idx |-> 0, status |-> status]

\* handleToggleScreenShare() while not sharing: startScreenShare() asks the
\* user for a screen
ToggleScreenShare ==
    /\ isMounted
    /\ events < MaxEvents
    /\ \A t \in tasks : t.kind # "share"
    /\ events' = events + 1
    /\ tasks' = tasks \cup {ShareTask(events + 1, connectionStatus)}
    /\ UNCHANGED <<conns, peerConnections, iceCandidatesQueue, connectionTimeouts, timers,
                   emitted, candidates>>
    /\ UNCHANGED <<relayVars, isConnected, isMounted, joinedRoomReplies, leftPeers, mediaVars, remoteStreamsRef,
                   connectionError, connectionStatus>>

\* the peers handleToggleScreenShare calls updateStream for:
\* connectionStatus[peerId] === 'connected'
sharedWith(status) == {p \in Peers : status[p] = "connected"}

\* handleToggleScreenShare resumes with the screen stream: updateStream(peerId,
\* screenStream) for the peers of sharedWith; updateStream returns false for a
\* peer without a connection
ScreenShareStarted(t) ==
    /\ t \in tasks /\ t.pos = "startScreenShare"
    /\ tasks' = tasks \ {t}
    /\ updates' = updates \cup
           {[id |-> t.ev, peer |-> p, pc |-> peerConnections[p]] :
                p \in {q \in sharedWith(t.status) : peerConnections[q] # 0}}
    /\ UNCHANGED <<senders, chain, localStream>>
    /\ UNCHANGED <<conns, peerConnections, iceCandidatesQueue, connectionTimeouts, timers,
                   events, emitted, candidates>>
    /\ UNCHANGED <<relayVars, isConnected, isMounted, joinedRoomReplies, leftPeers, remoteStreamsRef,
                   connectionError, connectionStatus>>

ShareNext ==
    \/ EngineNext
    \/ \E id \in 1..MaxConns : IceCompleted(id)
    \/ ToggleScreenShare
    \/ \E t \in tasks : ScreenShareStarted(t)

\* a getUserMedia started by the media initialisation effect resolves while
\* the client holds a local stream: setLocalStream(stream). The effects that
\* depend on localStream are cleaned up and run again: the join-room effect
\* emits leave-room and then join-room; the cleanup of the "cleanup on unmount"
\* effect calls stopMedia() of the previous render, which does
\* setLocalStream(null), and closeAllPeerConnections(). With the null stream the
\* join-room effect is cleaned up once more (leave-room) and does not join
LocalStreamReplaced ==
    /\ isMounted
    /\ localStream # 0
    /\ events < MaxEvents
    /\ events' = events + 1
    /\ localStream' = 0
    /\ emitted' = IF isConnected
                  THEN emitted (+) JoinEffect("leave-room", events + 1)
                               (+) JoinEffect("join-room", events + 1)
                               (+) JoinEffect("leave-room", events + 1)
                  ELSE emitted
    /\ Commit(closeAllPeerConnections(Cur))
    /\ UNCHANGED <<candidates, isMounted, joinedRoomReplies, leftPeers, isConnected>>
    /\ UNCHANGED <<relayVars, senders, updates, chain>>

\* a getUserMedia resolves while the client holds no local stream:
\* setLocalStream(stream); the join-room effect emits join-room, the cleanup of
\* the "cleanup on unmount" effect calls closeAllPeerConnections()
LocalStreamAcquired ==
    /\ isMounted
    /\ localStream = 0
    /\ events < MaxEvents
    /\ events' = events + 1
    /\ localStream' = events + 1
    /\ emitted' = IF isConnected
                  THEN emitted (+) JoinEffect("join-room", events + 1)
                  ELSE emitted
    /\ Commit(closeAllPeerConnections(Cur))
    /\ UNCHANGED <<candidates, isMounted, joinedRoomReplies, leftPeers, isConnected>>
    /\ UNCHANGED <<relayVars, senders, updates, chain>>

ClientNext ==
    \/ EngineNext
    \/ TransportLost
    \/ TransportRestored
    \/ HangUp

\* the engine with the connectivity reports of the browser
IceNext ==
    \/ EngineNext
    \/ \E id \in 1..MaxConns : IceFailed(id)
    \/ \E tm \in timers : IceRestartDelay(tm)
    \/ \E id \in 1..MaxConns : IceChecking(id)

\* the engine with candidates that the browser rejects
CandidateNext ==
    \/ EngineNext
    \/ \E p \in Peers : IceCandidateMalformed(p)

Init == RelayInit /\ EngineInit /\ MediaInit

Spec == Init /\ [][Next]_vars

SpecEngine == Init /\ [][EngineNext]_vars

SpecClient == Init /\ [][ClientNext]_vars

MediaChurnNext ==
    \/ ClientNext
    \/ LocalStreamReplaced
    \/ LocalStreamAcquired

SpecMediaChurn == Init /\ [][MediaChurnNext]_vars

\* a handleJoinedRoom that treats every listed user as handleUserJoined does
JoinedRoomOffers(listed) ==
    /\ isConnected = TRUE
    /\ localStream # 0
    /\ events < MaxEvents
    /\ events' = events + 1
    /\ joinedRoomReplies' = joinedRoomReplies \cup {[ev |-> events + 1, users |-> listed]}
    /\ tasks' = tasks \cup {Task(events + 1, "join", p, 0, "delay", 0) : p \in listed}
    /\ UNCHANGED <<conns, peerConnections, iceCandidatesQueue, connectionTimeouts, timers,
                   emitted, candidates, isConnected, remoteStreamsRef, connectionError,
                   isMounted, connectionStatus, leftPeers>>
    /\ UNCHANGED <<relayVars, mediaVars>>

\* 'joined-room' {users}: handleJoinedRoom stores the list as the participants
\* and clears isConnecting; it creates no session and emits nothing
JoinedRoom(listed) ==
    /\ isConnected = TRUE
    /\ localStream # 0
    /\ events < MaxEvents
    /\ events' = events + 1
    /\ joinedRoomReplies' = joinedRoomReplies \cup {[ev |-> events + 1, users |-> listed]}
    /\ UNCHANGED <<conns, peerConnections, iceCandidatesQueue, connectionTimeouts, timers,
                   tasks, emitted, candidates, isConnected, remoteStreamsRef,
                   connectionError, isMounted, connectionStatus, leftPeers>>
    /\ UNCHANGED <<relayVars, mediaVars>>

JoinNext ==
    \/ EngineNext
    \/ \E listed \in SUBSET Peers : JoinedRoom(listed)

SpecJoin == Init /\ [][JoinNext]_vars

SpecIce == Init /\ [][IceNext]_vars

SpecCandidates == Init /\ [][CandidateNext]_vars

SpecShare == Init /\ [][ShareNext]_vars

InitSenders == RelayInit /\ EngineInit /\ SendersInit

SpecSenders == InitSenders /\ [][SendersNext]_vars

InitInARow == RelayInit /\ EngineInit /\ AnySendersInit

SpecInARow == InitInARow /\ [][InARowNext]_vars

\* ------------------------------------------------------- engine: claims

\* the sessions that exist for peer p: the connections made for p and not closed
Sessions(p) == {id \in 1..Len(conns) : conns[id].peer = p /\ ~conns[id].closed}

\* the places (connection, position) where candidate c has been applied
AppliedAt(c) ==
    {x \in UNION {{<<id, i>> : i \in 1..Len(conns[id].applied)} : id \in 1..Len(conns)} :
        conns[x[1]].applied[x[2]] = c}

\* the candidates that were placed in the queue on arrival
QueuedIds == {c.id : c \in {x \in candidates : x.queued}}

\* C2 (its clause "none is applied twice", "applied to the peer's session
\* exactly once"): no candidate received for a peer is applied more than once.
C2_NoCandidateAppliedTwice ==
    \A c \in candidates : Cardinality(AppliedAt(c.id)) <= 1

\* the sessions created by the handling of an offer
OfferSessions == {id \in 1..Len(conns) : conns[id].by = "offer"}

\* the handling of event ev is still in progress
Handling(ev) == \E t \in tasks : t.ev = ev

\* the answer to the offer that created connection c
AnswerTo(c) == [type |-> "answer", target |-> c.peer, ev |-> c.ev]

\* C3 as stated: every offer received from P, once its handling is over, has
\* been set as remote description of P's session, a local answer has been set
\* and exactly one answer targeted at P has been emitted.
C3_OfferAnsweredOnce ==
    \A id \in OfferSessions :
        ~Handling(conns[id].ev) =>
            /\ conns[id].remoteDescription = conns[id].ev
            /\ conns[id].localDescription = conns[id].ev
            /\ CopiesIn(AnswerTo(conns[id]), emitted) = 1

\* C3 amended: for every offer received from P at most one answer is emitted,
\* it is targeted at P and emitted only after the handling has set the offer as
\* remote description and the local answer; it is emitted whenever the handling
\* is over and the session made for the offer has not been closed, and while the
\* handling is in progress it has not been emitted.
C3_OfferAnsweredOnceUnlessClosed ==
    \A id \in OfferSessions :
        LET c == conns[id]
            n == CopiesIn(AnswerTo(c), emitted)
        IN  /\ n <= 1
            /\ \A e \in BagToSet(emitted) :
                   (e.type = "answer" /\ e.ev = c.ev) => e = AnswerTo(c)
            /\ Handling(c.ev) => n = 0
            /\ n = 1 => (c.remoteDescription = c.ev /\ c.localDescription = c.ev)
            /\ (~Handling(c.ev) /\ ~c.closed) => n = 1

\* C3 witness: an offer has been answered after a queued candidate was flushed
\* into its session, and another offer's session was closed before its answer.
C3_Witness ==
    /\ \E id \in OfferSessions :
           /\ CopiesIn(AnswerTo(conns[id]), emitted) = 1
           /\ conns[id].applied # <<>>
    /\ \E id \in OfferSessions :
           /\ conns[id].closed
           /\ CopiesIn(AnswerTo(conns[id]), emitted) = 0

\* C7: at most one session exists per peer, and no pending timer belongs to a
\* session whose connection has been closed.
C7_OneSessionNoOldTimers ==
    /\ \A p \in Peers : Cardinality(Sessions(p)) <= 1
    /\ \A tm \in timers : ~conns[tm.pc].closed

\* C8 as stated: on every connection the candidates are applied in arrival
\* order (the queued ones before any that arrived later), and a candidate that
\* arrives when the remote description is set is not queued.
C8_QueuedAppliedBeforeLater ==
    /\ \A id \in 1..Len(conns) :
           \A i, j \in 1..Len(conns[id].applied) :
               i < j => conns[id].applied[i] < conns[id].applied[j]
    /\ \A c \in candidates : c.remote => ~c.queued

\* C8 amended: on every connection the queued candidates are applied in arrival
\* order relative to one another, only once the remote description is set and,
\* on a session made for an offer, only once the local answer is set; a
\* candidate that arrives when the remote description of its peer's session is
\* set is applied directly to that session and not queued, and it is the only
\* kind of candidate applied directly.
C8_QueuedAppliedInArrivalOrder ==
    /\ \A id \in 1..Len(conns) :
           LET a == conns[id].applied
           IN  /\ \A i, j \in 1..Len(a) :
                      (i < j /\ a[i] \in QueuedIds /\ a[j] \in QueuedIds) => a[i] < a[j]
               /\ a # <<>> => conns[id].remoteDescription # 0
               /\ (conns[id].by = "offer" /\ \E i \in 1..Len(a) : a[i] \in QueuedIds)
                      => conns[id].localDescription # 0
    /\ \A c \in candidates :
           /\ c.remote <=> ~c.queued
           /\ c.remote => \E x \in AppliedAt(c.id) : x[1] = c.pc

\* C8 witness: two queued candidates were replayed in arrival order after a
\* candidate that arrived later had been applied directly.
C8_Witness ==
    \E id \in 1..Len(conns) :
        LET a == conns[id].applied
        IN  \E i, j, k \in 1..Len(a) :
                /\ i < j /\ j < k
                /\ a[i] \notin QueuedIds
                /\ a[j] \in QueuedIds /\ a[k] \in QueuedIds
                /\ a[j] < a[k] /\ a[k] < a[i]

\* C11: closePeerConnection(P) called twice in immediate succession leaves the
\* engine in the state one call leaves it in, for every peer P and every state
\* of the engine: the second call changes nothing.
C11_CloseTwiceIsCloseOnce ==
    \A p \in Peers :
        closePeerConnection(closePeerConnection(Cur, p), p) = closePeerConnection(Cur, p)

\* C11 witness: a peer has a session with a pending connect-timeout, a
\* suspended continuation and a queued candidate, so that the first of the two
\* calls changes the connection, the timers, the continuations and the queue.
C11_Witness ==
    \E p \in Peers :
        /\ peerConnections[p] # 0
        /\ Timer("connect", peerConnections[p]) \in timers
        /\ \E t \in tasks : t.pc = peerConnections[p]
        /\ iceCandidatesQueue[p].items # <<>>
        /\ closePeerConnection(Cur, p).pcs[p] = 0
        /\ closePeerConnection(Cur, p).timers = {}
        /\ closePeerConnection(Cur, p).tasks = {}
        /\ ~closePeerConnection(Cur, p).queue[p].has

\* the connection the last step created, if the step was the arrival of an
\* offer (0 otherwise)
OfferArrived ==
    IF Len(conns') = Len(conns) + 1 /\ conns'[Len(conns')].by = "offer"
    THEN Len(conns')
    ELSE 0

C19_NoSessionAfterTransportLoss ==
    [][(isConnected = TRUE /\ isConnected' = FALSE) =>
          /\ \A p \in Peers : peerConnections'[p] = 0 /\ ~iceCandidatesQueue'[p].has
          /\ timers' = {}]_vars

\* the tracks of call c2 that the step just taken has dealt with
Processed(c2) ==
    LET olds == {c \in updates : c.id = c2.id}
        from == IF olds = {} THEN 1 ELSE (CHOOSE c \in olds : TRUE).i
    IN  from..(c2.i - 1)

AnswerStepDone(t) ==
    LET items == iceCandidatesQueue[t.peer].items
        goesOn == \E u \in tasks' : u.ev = t.ev
    IN  IF t.pos = "setRemote"
        THEN conns[t.pc].signalingState = "have-local-offer"
             => /\ conns'[t.pc].remoteDescription = t.ev
                /\ IF items # <<>>
                   THEN goesOn /\ items[1] \in SeqSet(conns'[t.pc].applied)
                   ELSE ~goesOn
        ELSE IF t.idx < Len(items)
             THEN goesOn /\ items[t.idx + 1] \in SeqSet(conns'[t.pc].applied)
             ELSE /\ ~goesOn
                  /\ iceCandidatesQueue'[t.peer] = EmptyQueue
                  /\ \A k \in 1..Len(items) : items[k] \in SeqSet(conns'[t.pc].applied)

\* C21: the answer received for a session with a local offer outstanding is
\* set as that session's remote description, and the candidates queued for the
\* peer are then handed to the connection one by one and the queue is emptied
C21_AnswerSetThenQueueFlushed ==
    [][\A t \in tasks :
          (t.kind = "answer" /\ t \notin tasks') => AnswerStepDone(t)]_vars

\* C21 amended: the same, unless the session is closed while the answer or a
\* queued candidate is being applied; then the handler never goes on
C21_AnswerSetThenQueueFlushedUnlessClosed ==
    [][\A t \in tasks :
          (t.kind = "answer" /\ t \notin tasks' /\ ~conns'[t.pc].closed)
          => AnswerStepDone(t)]_vars

\* C21 witness: a session created for a user-joined has the answer as remote
\* description, a candidate that had been queued was applied to it, and the
\* queue is empty with the handler finished
C21_Witness ==
    \E id \in 1..Len(conns) :
        /\ conns[id].by = "join"
        /\ ~conns[id].closed
        /\ conns[id].remoteDescription # 0
        /\ \A u \in tasks : u.ev # conns[id].remoteDescription
        /\ \E a \in candidates : a.queued /\ a.id \in SeqSet(conns[id].applied)
        /\ iceCandidatesQueue[conns[id].peer] = EmptyQueue

\* the offers emitted so far for the user-joined event ev, targeted at p
OffersFor(em, ev, p) == CopiesIn([type |-> "offer", target |-> p, ev |-> ev], em)

\* the handler of user-joined task t has gone one step further: what the step
\* must have done
JoinStepDone(t) ==
    LET goesOn == \E u \in tasks' : u.ev = t.ev
    IN  IF t.pos = "delay"
        THEN LET id == peerConnections'[t.peer]
             IN  /\ id # 0 /\ id > Len(conns)
                 /\ conns'[id].ev = t.ev /\ ~conns'[id].closed
                 /\ connectionTimeouts'[t.peer].connect = id
                 /\ Timer("connect", id) \in timers'
                 /\ goesOn
        ELSE IF t.pos = "createOffer"
        THEN goesOn /\ OffersFor(emitted', t.ev, t.peer) = 0
        ELSE /\ conns'[t.pc].localDescription = t.ev
             /\ conns'[t.pc].signalingState = "have-local-offer"
             /\ OffersFor(emitted', t.ev, t.peer) = 1
             /\ ~goesOn

\* every emitted offer answers to one user-joined, and is emitted once
OneOfferPerJoin ==
    \A e \in BagToSet(emitted') :
        e.type = "offer" => CopiesIn(e, emitted') = 1

\* C22: a mounted client that receives user-joined for P creates a session for
\* P, arms the connect-timeout, sets a local offer and emits exactly one offer
\* targeted at P
C22_JoinCreatesSessionAndOffers ==
    [][/\ \A t \in tasks : (t.kind = "join" /\ t \notin tasks') => JoinStepDone(t)
       /\ OneOfferPerJoin]_vars

\* C22 amended: the same, unless the session is closed or replaced while
\* createOffer is suspended; then no offer is emitted for that user-joined
C22_JoinCreatesSessionAndOffersUnlessClosed ==
    [][/\ \A t \in tasks :
             (/\ t.kind = "join" /\ t \notin tasks'
              /\ (t.pos # "delay" => ~conns'[t.pc].closed))
             => JoinStepDone(t)
       /\ \A t \in tasks :
             (t.kind = "join" /\ t.pos # "delay" /\ conns'[t.pc].closed)
             => /\ OffersFor(emitted', t.ev, t.peer) = 0
                /\ \A u \in tasks' : u.ev # t.ev
       /\ OneOfferPerJoin]_vars

\* C22 witness: the session made for a user-joined is open with its local
\* offer set, the handler has returned and one offer for it was emitted
C22_Witness ==
    \E id \in 1..Len(conns) :
        /\ conns[id].by = "join"
        /\ ~conns[id].closed
        /\ conns[id].localDescription = conns[id].ev
        /\ \A u \in tasks : u.ev # conns[id].ev
        /\ OffersFor(emitted, conns[id].ev, conns[id].peer) = 1

\* the connect-timeout tm fires in this step (it is not cleared by a close or
\* by a connected report)
ConnectTimeoutFires(tm) ==
    /\ tm \in timers /\ tm.kind = "connect" /\ tm \notin timers'
    /\ events' = events
    /\ conns'[tm.pc].everConnected = conns[tm.pc].everConnected

\* what belongs to the peers other than p is the same before and after the step
OtherPeersUnchanged(p) ==
    /\ \A q \in Peers \ {p} :
          /\ peerConnections'[q] = peerConnections[q]
          /\ iceCandidatesQueue'[q] = iceCandidatesQueue[q]
          /\ connectionTimeouts'[q] = connectionTimeouts[q]
          /\ remoteStreamsRef'[q] = remoteStreamsRef[q]
    /\ \A id \in 1..Len(conns) : conns[id].peer # p => conns'[id] = conns[id]
    /\ {x \in timers' : conns[x.pc].peer # p} = {x \in timers : conns[x.pc].peer # p}
    /\ {u \in tasks' : u.peer # p} = {u \in tasks : u.peer # p}

\* the connect-timeout has closed the session of p and reported it
TimedOut(tm, p) ==
    /\ conns'[tm.pc].closed
    /\ peerConnections'[p] = 0
    /\ connectionError' = [type |-> "timeout", peer |-> p]
    /\ OtherPeersUnchanged(p)

\* C23: when the connect-timeout of P's session fires and the session has not
\* reached connected, the session is closed, a timeout error naming P is
\* reported, and nothing of any other peer changes
C23_TimeoutClosesOnlyThatPeer ==
    [][\A tm \in timers :
          (/\ ConnectTimeoutFires(tm)
           /\ peerConnections[conns[tm.pc].peer] = tm.pc
           /\ ~conns[tm.pc].everConnected)
          => TimedOut(tm, conns[tm.pc].peer)]_vars

\* C23 amended: the same for a session whose connection state is still new or
\* connecting; when the state is failed the timeout changes nothing
C23_TimeoutClosesOnlyThatPeerWhileConnecting ==
    [][\A tm \in timers :
          (/\ ConnectTimeoutFires(tm)
           /\ peerConnections[conns[tm.pc].peer] = tm.pc)
          => IF conns[tm.pc].connectionState \in {"new", "connecting"}
             THEN TimedOut(tm, conns[tm.pc].peer)
             ELSE /\ conns' = conns /\ peerConnections' = peerConnections
                  /\ connectionError' = connectionError]_vars

\* C23 witness: the session of one peer was closed by its connect-timeout while
\* another peer has an open session
C23_Witness ==
    \E p \in Peers :
        /\ connectionError = [type |-> "timeout", peer |-> p]
        /\ peerConnections[p] = 0
        /\ \E q \in Peers \ {p} :
              peerConnections[q] # 0 /\ ~conns[peerConnections[q]].closed

\* C24: once the connectivity checks of a session have reported connected or
\* completed, its connect-timeout is no longer armed, and no connect-timeout
\* that fires afterwards closes that session
C24_ConnectedSessionNeverTimesOut ==
    [][/\ \A id \in 1..Len(conns') :
             conns'[id].everConnected => Timer("connect", id) \notin timers'
       /\ \A tm \in timers : \A id \in 1..Len(conns) :
             (ConnectTimeoutFires(tm) /\ conns[id].everConnected)
             => conns'[id].closed = conns[id].closed]_vars

\* C24 witness: a session that reported connected is open, its peer has no
\* connect-timeout handle, and the connect-timeout of another session has fired
C24_Witness ==
    \E id \in 1..Len(conns) :
        /\ conns[id].everConnected /\ ~conns[id].closed
        /\ connectionTimeouts[conns[id].peer].connect = 0
        /\ connectionError.type = "timeout"

\* C25: over the life of a session the engine calls pc.restartIce() at most
\* once, however often the connectivity checks report failed
C25_AtMostOneRestart ==
    \A id \in 1..Len(conns) : conns[id].restarts <= 1

\* C26: the step that removes P's session from the connection map also
\* removes P's candidate queue, cached remote stream and timer handles, and in
\* no state is P absent from the connection map while a cached remote stream
\* or a timer handle of P is left
C26_CloseRemovesEverythingAtOnce ==
    [][\A p \in Peers :
          /\ (peerConnections[p] # 0 /\ peerConnections'[p] = 0)
             => /\ conns'[peerConnections[p]].closed
                /\ iceCandidatesQueue'[p] = NoQueue
                /\ remoteStreamsRef'[p] = 0
                /\ connectionTimeouts'[p] = NoTimeouts
                /\ Timer("connect", connectionTimeouts[p].connect) \notin timers'
                /\ Timer("ice", connectionTimeouts[p].ice) \notin timers'
          /\ peerConnections'[p] = 0
             => remoteStreamsRef'[p] = 0 /\ connectionTimeouts'[p] = NoTimeouts]_vars

\* C26 witness: a session that had a remote stream cached was closed, and its
\* peer is in none of the four maps
C26_Witness ==
    \E id \in 1..Len(conns) :
        /\ conns[id].closed /\ conns[id].remoteDescription # 0
        /\ peerConnections[conns[id].peer] = 0
        /\ iceCandidatesQueue[conns[id].peer] = NoQueue
        /\ remoteStreamsRef[conns[id].peer] = 0
        /\ connectionTimeouts[conns[id].peer] = NoTimeouts

\* the step runs closeAllPeerConnections: by hangUp (the view unmounts) or by
\* the cleanup that a lost transport triggers
ClosesAll == (isMounted /\ ~isMounted') \/ (isConnected = TRUE /\ isConnected' = FALSE)

\* C27: after closeAllPeerConnections no per-peer state is left for any peer
\* id: the connection map, the candidate queues, the remote-stream cache and
\* the timer table are empty
C27_CloseAllLeavesNothing ==
    [][ClosesAll =>
          \A p \in Peers :
              /\ peerConnections'[p] = 0
              /\ iceCandidatesQueue'[p] = NoQueue
              /\ remoteStreamsRef'[p] = 0
              /\ connectionTimeouts'[p] = NoTimeouts]_vars

\* C28: closing a session cancels every timer armed on its behalf (the
\* connect-timeout, the gathering timeout, the restart delay), so no timer of
\* a closed session is pending and none fires after the close
C28_NoTimerOutlivesItsSession ==
    \A tm \in timers : ~conns[tm.pc].closed

\* the offers and answers the client has emitted for the handler of event ev
DescriptionsOf(em, ev) ==
    {m \in BagToSet(em) : m.type \in {"offer", "answer"} /\ m.ev = ev}

\* nothing is done on behalf of the closed session id in this step: no
\* continuation is suspended on it, its connection is not written, no timer is
\* armed for it, no per-peer entry is pointed at it, an error reported in the
\* step is that of a session still open, and no description of its handler is
\* emitted
NothingDoneFor(id) ==
    /\ \A t \in tasks' : t.pos # "delay" => t.pc # id
    /\ conns'[id] = conns[id]
    /\ \A tm \in timers' \ timers : tm.pc # id
    /\ \A p \in Peers :
          /\ peerConnections'[p] = id => peerConnections[p] = id
          /\ remoteStreamsRef'[p] = id => remoteStreamsRef[p] = id
          /\ connectionTimeouts'[p].connect = id => connectionTimeouts[p].connect = id
          /\ connectionTimeouts'[p].ice = id => connectionTimeouts[p].ice = id
    /\ connectionError' # connectionError =>
          \E j \in 1..Len(conns) : ~conns[j].closed /\ conns[j].peer = connectionError'.peer
    /\ DescriptionsOf(emitted', conns[id].ev) = DescriptionsOf(emitted, conns[id].ev)

FlushEnds(t) ==
    /\ t \in tasks /\ t.pos = "flush"
    /\ \A u \in tasks' : u.ev = t.ev => u.pos # "flush"
    /\ ~conns'[t.pc].closed

\* the flush run by task t resumes in this step and attempts a candidate that
\* the connection rejects
FlushAttemptFails(t) ==
    /\ t \in tasks /\ t.pos = "flush"
    /\ [t EXCEPT !.idx = t.idx + 1] \in tasks'
    /\ QueuedAt(iceCandidatesQueue[t.peer].items, t.idx + 1) \in Malformed

\* the elements of seq that are in set S, in the order of seq
Among(seq, S) ==
    LET In(c) == c \in S
    IN  SelectSeq(seq, In)

\* C30: a candidate that cannot be applied, directly or during the flush of
\* the queue, neither closes nor changes the session; a flush still attempts
\* every queued candidate in order, so that at its end exactly the queued
\* candidates that could be applied have been added, in queue order, and the
\* queue is empty
C30_CandidateFailureIsLocal ==
    [][/\ \A a \in candidates' \ candidates :
             (~a.ok /\ ~a.queued) =>
                 /\ conns' = conns
                 /\ UNCHANGED <<peerConnections, iceCandidatesQueue, connectionTimeouts,
                                timers, tasks, remoteStreamsRef>>
       /\ \A t \in tasks :
             /\ FlushAttemptFails(t) =>
                   /\ conns' = conns
                   /\ UNCHANGED <<peerConnections, iceCandidatesQueue, connectionTimeouts,
                                  timers, remoteStreamsRef>>
             /\ FlushEnds(t) =>
                   LET items == iceCandidatesQueue[t.peer].items
                   IN  /\ peerConnections'[t.peer] = t.pc
                       /\ iceCandidatesQueue'[t.peer] = EmptyQueue
                       /\ Among(conns'[t.pc].applied, SeqSet(items))
                              = Among(items, SeqSet(items) \ Malformed)]_vars

\* a flush has ended on an open session whose queue held a candidate that was
\* rejected ahead of one that was added, and the queue is empty; a candidate
\* applied directly to that session was rejected as well
C30_Witness ==
    /\ \A j \in 1..Len(conns) : ~conns[j].closed
    /\ \E a, b, c \in candidates :
          /\ a.peer = b.peer /\ a.queued /\ b.queued /\ ~a.ok /\ b.ok /\ a.id < b.id
          /\ c.peer = a.peer /\ ~c.queued /\ ~c.ok
          /\ peerConnections[a.peer] # 0
          /\ b.id \in SeqSet(conns[peerConnections[a.peer]].applied)
          /\ a.id \notin SeqSet(conns[peerConnections[a.peer]].applied)
          /\ iceCandidatesQueue[a.peer] = EmptyQueue
          /\ \A t \in tasks : t.pos # "flush"

\* C31: calling updateStream(P, s) a second time in a row leaves the senders
\* of the connection, and the track each one carries, as the first call left
\* them, whatever tracks s holds and whatever senders the connection had
C31_UpdateStreamTwiceIsOnce ==
    [][\A u \in updates' \ updates : u.nth = 2 => senders' = senders]_vars

\* C32: handling an offer, answer or ice-candidate changes neither the room
\* table nor any user's record or room membership, and the message is
\* forwarded exactly when the sender has a user record and the target is a
\* connected user with the sender's room id, whatever was relayed before
C32_RelayKeepsNoNegotiationPhase ==
    [][(handled' # handled /\ last'.type \in SignalKinds) =>
          /\ UNCHANGED <<rooms, users, userObj, sockRooms>>
          /\ (Forwarded' # {}) <=>
                 /\ last'.socket \in users
                 /\ CanForward(last'.socket, last'.target, Connected, users, userObj)]_vars

\* the fifth handler run forwards an answer between two members of a room: the
\* four runs before it connected and admitted them, so no offer came first
C32_Witness ==
    /\ handled = 5
    /\ last.type = "answer"
    /\ Forwarded # {}
    /\ last.socket # last.target
    /\ Truthy(userObj[last.socket].roomId)
    /\ last.socket \in SeqSet(rooms[userObj[last.socket].roomId])
    /\ last.target \in SeqSet(rooms[userObj[last.socket].roomId])
    /\ connectionMetrics[last.target] = 0

\* the sessions in the Connected state: open, and the last connectivity-check
\* state reported is connected or completed
ConnectedSessions ==
    {id \in 1..Len(conns) :
        ~conns[id].closed /\ conns[id].iceConnectionState \in {"connected", "completed"}}

\* C33: when screen sharing starts, updateStream is applied to exactly the
\* sessions in the Connected state
C33_ScreenSharedWithConnectedSessions ==
    [][\A t \in tasks \ tasks' :
          t.kind = "share" => {u.pc : u \in updates' \ updates} = ConnectedSessions]_vars

\* C34: after every handler run, a user id is a member of room r exactly when
\* the user table holds a record for it whose roomId is r, for every room id a
\* client may send, the empty string included
C34_MembersAreUsersOfTheRoom ==
    \A r \in RoomIds : \A s \in Sockets :
        (r \in DOMAIN rooms /\ s \in SeqSet(rooms[r]))
            <=> (s \in users /\ userObj[s].roomId = r)

\* a connected user that has joined no room yet: its record still has the
\* roomId null it was created with
InNoRoom(s) == s \in users /\ userObj[s].roomId = Null

\* C35: an offer, answer or ice-candidate is never forwarded when its sender
\* or its target is a connected user that is in no room
C35_NoForwardingWithoutRoom ==
    (LastIsSignal /\ Forwarded # {}) => ~InNoRoom(last.socket) /\ ~InNoRoom(last.target)

\* C36: once the relay has handled leave-room from a connection, the
\* connection has no user record and never gets one again, and every join-room
\* it sends afterwards is answered with the error and changes neither the room
\* table nor the user table
C36_NoJoinAfterLeaveRoom ==
    [][\A s \in Sockets :
          /\ (handled' # handled /\ last'.type = "leave-room" /\ last'.socket = s)
                => s \notin users'
          /\ (sockState[s] = "open" /\ s \notin users) =>
                /\ s \notin users'
                /\ (handled' # handled /\ last'.type = "join-room" /\ last'.socket = s)
                      => /\ sent' = userNotInitialized(s)
                         /\ UNCHANGED <<rooms, users, userObj, sockRooms>>]_vars

\* a member of a room sent leave-room and then join-room for the room it had
\* left, which still has a member: it got the error and is not a member
C36_Witness ==
    /\ last.type = "join-room"
    /\ sockState[last.socket] = "open"
    /\ last.socket \notin users
    /\ userObj[last.socket].roomId = last.roomId
    /\ last.roomId \in DOMAIN rooms
    /\ last.socket \notin SeqSet(rooms[last.roomId])
    /\ sent = userNotInitialized(last.socket)

\* the room events the client emits to the relay in this step
RoomEventsEmitted ==
    {m \in BagToSet(emitted') :
        /\ m.type \in {"join-room", "leave-room"}
        /\ CopiesIn(m, emitted') > CopiesIn(m, emitted)}

\* the client has emitted join-room and has not left since
HasJoined == isMounted /\ isConnected = TRUE /\ localStream # 0

\* C37: a client that has joined emits neither leave-room nor another
\* join-room unless the user hangs up, the call view unmounts or the transport
\* is lost; a change of the local stream object alone emits neither
C37_StaysJoinedUntilHangUpOrLoss ==
    [][(HasJoined /\ isMounted' /\ isConnected' = TRUE) => RoomEventsEmitted = {}]_vars

\* the offers the client emits to peer p in this step
OffersEmittedTo(p) ==
    {m \in BagToSet(emitted') :
        /\ m.type = "offer" /\ m.target = p
        /\ CopiesIn(m, emitted') > CopiesIn(m, emitted)}

\* C38: once user-left for a peer has been handled, and until a user-joined or
\* an offer of that peer is handled, the client holds no session for the peer,
\* creates none and emits no offer to it; the user-left that arrives during the
\* one-second delay of handleUserJoined is included
C38_NoSessionAfterUserLeft ==
    [][\A p \in leftPeers' : peerConnections'[p] = 0 /\ OffersEmittedTo(p) = {}]_vars

\* the offers the client emits in this step
OffersEmitted == UNION {OffersEmittedTo(p) : p \in Peers}

\* the step ends the handling of user-joined event ev for peer p
EndsUserJoined(ev, p) ==
    \E t \in tasks \ tasks' : t.kind = "join" /\ t.peer = p /\ t.ev = ev

\* C39: the client emits an offer to a peer only as the end of its handling of
\* a user-joined event for that peer; handling a joined-room reply arms no
\* handler, creates no session and emits nothing, so the joiner originates no
\* offer to the members the reply lists
C39_OffersOnlyOnUserJoined ==
    [][/\ \A m \in OffersEmitted :
             /\ EndsUserJoined(m.ev, m.target)
             /\ m.ev \notin {r.ev : r \in joinedRoomReplies'}
       /\ joinedRoomReplies' # joinedRoomReplies =>
             /\ tasks' = tasks
             /\ emitted' = emitted
             /\ peerConnections' = peerConnections]_vars

\* a joined-room reply listing p1 and p2 has been handled, later user-joined for
\* p2 has been handled to its end with an offer to p2, and no offer was ever
\* emitted to p1
C39_Witness ==
    /\ \E r \in joinedRoomReplies :
          /\ r.users = Peers
          /\ \E m \in BagToSet(emitted) :
                m.type = "offer" /\ m.target = "p2" /\ m.ev > r.ev
    /\ \A m \in BagToSet(emitted) : m.type = "offer" => m.target # "p1"
    /\ peerConnections["p1"] = 0

\* the step replaces an existing session of peer p by a new one
ReplacesSession(p) ==
    /\ peerConnections[p] # 0
    /\ peerConnections'[p] \notin {0, peerConnections[p]}

\* C40: when a session of a peer is replaced by a new one, the new session
\* starts with an empty candidate queue, and a candidate that was queued while
\* a session of the peer existed is applied to no other session
C40_ReplacedSessionStartsEmpty ==
    [][/\ \A p \in Peers : ReplacesSession(p) => iceCandidatesQueue'[p].items = <<>>
       /\ \A c \in candidates' :
             (c.queued /\ c.pc # 0) =>
                 \A id \in 1..Len(conns') :
                     c.id \in SeqSet(conns'[id].applied) => id = c.pc]_vars

====
